---- MODULE Spec2Model ----
(***************************************************************************)
(* gh-pric: the activity aggregation pipeline of src/main.go.              *)
(*                                                                         *)
(* main validates the output format, asks the API for the user, runs the   *)
(* six list-fetch passes of fetchAllItems (each followed by the detail     *)
(* enrichment of its items), filters comments and writes the report.       *)
(* Every call of client.Get is one step of the model; the API answers      *)
(* each attempt with a failure or with a payload drawn from a small set.   *)
(* Text that the code measures or cuts (repository strings, bodies) is a   *)
(* sequence of one-character strings; times are seconds.                   *)
(***************************************************************************)
EXTENDS Integers, Sequences, FiniteSets, TLC

(***************************************************************************)
(* Bounds of the model                                                     *)
(***************************************************************************)
\* records inside the date range that the API hands out during one run
MaxItems == 2
\* records on one page of search results
MaxPageLen == 1

(***************************************************************************)
(* Program constants                                                       *)
(***************************************************************************)
maxRetries == 3
PageCeiling == 10
Day == 86400
Second == 1

Nil == <<>>

RECURSIVE SeqsUpTo(_, _)
SeqsUpTo(S, n) ==
    IF n = 0 THEN {<<>>}
    ELSE LET shorter == SeqsUpTo(S, n - 1)
         IN  shorter \cup {Append(s, x) : s \in {t \in shorter : Len(t) = n - 1}, x \in S}

(***************************************************************************)
(* Strings                                                                 *)
(***************************************************************************)
HasPrefix(s, p) == Len(s) >= Len(p) /\ SubSeq(s, 1, Len(p)) = p
TrimPrefix(s, p) == IF HasPrefix(s, p) THEN SubSeq(s, Len(p) + 1, Len(s)) ELSE s
Contains(s, c) == \E i \in 1..Len(s) : s[i] = c

\* strings.Split(s, "/"): the pieces between the slashes, one piece for a
\* string without a slash (the empty string included)
RECURSIVE SplitAcc(_, _, _)
SplitAcc(s, cur, acc) ==
    IF s = <<>> THEN Append(acc, cur)
    ELSE IF Head(s) = "/" THEN SplitAcc(Tail(s), <<>>, Append(acc, cur))
    ELSE SplitAcc(Tail(s), Append(cur, Head(s)), acc)

Split(s) == SplitAcc(s, <<>>, <<>>)

\* the index of the first c in s, 0 when there is none
RECURSIVE IndexFrom(_, _, _)
IndexFrom(s, c, i) ==
    IF i > Len(s) THEN 0 ELSE IF s[i] = c THEN i ELSE IndexFrom(s, c, i + 1)

Index(s, c) == IndexFrom(s, c, 1)

\* url.Parse(s).Path for the strings of the model: a scheme ends at the
\* first ":" when no "/" precedes it, "//" opens an authority that ends at
\* the next "/", and what is left is the path.  err: ":" in first place.
UrlParse(s) ==
    LET colon == Index(s, ":")
        slash == Index(s, "/")
        hasScheme == colon > 1 /\ (slash = 0 \/ colon < slash)
        rest == IF hasScheme THEN SubSeq(s, colon + 1, Len(s)) ELSE s
        afterAuth == SubSeq(rest, 3, Len(rest))
        cut == Index(afterAuth, "/")
        path == IF HasPrefix(rest, <<"/", "/">>)
                THEN (IF cut = 0 THEN <<>> ELSE SubSeq(afterAuth, cut, Len(afterAuth)))
                ELSE rest
    IN  [err |-> colon = 1, Path |-> IF colon = 1 THEN <<>> ELSE path]

Http == <<"h", "t", "t", "p">>

\* (mutant) the path of the URL returned with its leading slash
getRepoPathFromURL_KeepsSlash(repoURL) ==
    IF HasPrefix(repoURL, Http)
    THEN LET u == UrlParse(repoURL)
         IN  IF u.err THEN <<>> ELSE u.Path
    ELSE IF Contains(repoURL, "/") THEN repoURL
    ELSE <<>>

getRepoPathFromURL(repoURL) ==
    IF HasPrefix(repoURL, Http)
    THEN LET u == UrlParse(repoURL)
         IN  IF u.err THEN <<>> ELSE TrimPrefix(u.Path, <<"/">>)
    ELSE IF Contains(repoURL, "/") THEN repoURL
    ELSE <<>>

\* the repository name of a list record: the last two pieces of its
\* repository_url, "" when there are fewer than two pieces
RepoName(repoURL) ==
    LET repoParts == Split(repoURL)
        n == Len(repoParts)
    IN  IF n >= 2 THEN repoParts[n - 1] \o <<"/">> \o repoParts[n] ELSE <<>>

(***************************************************************************)
(* Dates                                                                   *)
(***************************************************************************)
\* A date string is a pair <<month, day>> of one (non-leap) year.  The
\* layout "2006-01-02" accepts it when the month and the day exist.
DaysIn(month) ==
    CASE month = 2 -> 28
      [] month \in {4, 6, 9, 11} -> 30
      [] OTHER -> 31

RECURSIVE DaysBefore(_)
DaysBefore(month) == IF month <= 1 THEN 0 ELSE DaysBefore(month - 1) + DaysIn(month - 1)

TimeParse(str) ==
    IF str[1] \in 1..12 /\ str[2] \in 1..DaysIn(str[1])
    THEN [err |-> FALSE, t |-> (DaysBefore(str[1]) + str[2] - 1) * Day]
    ELSE [err |-> TRUE, t |-> 0]

ZeroRange == [StartDate |-> 0, EndDate |-> 0]

\* (mutant) parseDateRange comparing the end day's midnight, before it is
\* moved to 23:59:59, with the start
parseDateRange_EndNotMoved(startStr, endStr) ==
    LET s == TimeParse(startStr)
        e == TimeParse(endStr)
    IN  IF s.err THEN [err |-> "Failed to parse start date", range |-> ZeroRange]
        ELSE IF e.err THEN [err |-> "Failed to parse end date", range |-> ZeroRange]
        ELSE IF e.t <= s.t
             THEN [err |-> "End date must be after start date", range |-> ZeroRange]
        ELSE [err |-> "", range |-> [StartDate |-> s.t, EndDate |-> e.t]]

parseDateRange(startStr, endStr) ==
    LET s == TimeParse(startStr)
        e == TimeParse(endStr)
        endDate == e.t + (24 * 3600 * Second - Second)
    IN  IF s.err THEN [err |-> "Failed to parse start date", range |-> ZeroRange]
        ELSE IF e.err THEN [err |-> "Failed to parse end date", range |-> ZeroRange]
        ELSE IF endDate < s.t
             THEN [err |-> "End date must be after start date", range |-> ZeroRange]
        ELSE [err |-> "", range |-> [StartDate |-> s.t, EndDate |-> endDate]]

\* t.Format("2006-01-02"): the <<month, day>> of the day t lies in
FormatDate(t) ==
    LET dayOfYear == t \div Day
        month == CHOOSE m \in 1..12 :
                    DaysBefore(m) <= dayOfYear /\ dayOfYear < DaysBefore(m) + DaysIn(m)
    IN  <<month, dayOfYear - DaysBefore(month) + 1>>

(***************************************************************************)
(* What the API can answer                                                 *)
(***************************************************************************)
GoodRepoURL == <<"h", "t", "t", "p", "s", ":", "/", "/", "g", "/", "o", "/", "r">>
BadRepoURL == <<"x">>

ApiRecord(n, t, repoURL) ==
    [number |-> n, title |-> "t", html_url |-> "u", state |-> "open",
     created_at |-> t, updated_at |-> t, repository_url |-> repoURL,
     user |-> "alice", assignees |-> <<"alice">>, labels |-> <<"bug">>]

\* one record just outside each end of the range and one on each end of it
RecordChoices(range) ==
    {ApiRecord(1, range.StartDate - 1, GoodRepoURL),
     ApiRecord(2, range.StartDate, GoodRepoURL),
     ApiRecord(3, range.EndDate, BadRepoURL),
     ApiRecord(4, range.EndDate + 1, GoodRepoURL)}

\* a page with a record outside the range between two records inside it
MixedPage(range) ==
    <<ApiRecord(3, range.EndDate, BadRepoURL),
      ApiRecord(1, range.StartDate - 1, GoodRepoURL),
      ApiRecord(2, range.StartDate, GoodRepoURL)>>

PageChoices(range) == SeqsUpTo(RecordChoices(range), MaxPageLen) \cup {MixedPage(range)}

ApiComment(who, text, t) ==
    [user |-> who, body |-> text, created_at |-> t, updated_at |-> t]

BodyChoices == {<<"b">>}
GeneralChoices == {<<>>, <<ApiComment("alice", <<"g", "1">>, 1), ApiComment("bob", <<"g", "2">>, 2)>>}
ReviewChoices == {<<>>, <<ApiComment("bob", <<"r", "1">>, 3)>>}
TransportErrors == {"timeout"}
UserChoices == {"alice"}

\* what the command line gives main: format, ignore list, from, to
Inputs ==
    {[format |-> "md", ignore |-> <<"bob">>, from |-> <<3, 1>>, to |-> <<3, 1>>],
     [format |-> "xml", ignore |-> <<>>, from |-> <<3, 1>>, to |-> <<3, 1>>],
     [format |-> "md", ignore |-> <<>>, from |-> <<3, 2>>, to |-> <<3, 1>>],
     [format |-> "md", ignore |-> <<>>, from |-> <<2, 30>>, to |-> <<3, 1>>]}

\* records of a page that lie inside the range, counted for the bound only
InsideCount(resp, range) ==
    Cardinality({i \in 1..Len(resp) :
        resp[i].created_at >= range.StartDate /\ resp[i].created_at <= range.EndDate})

\* the records of a page that lie inside the range, in the order of the page,
\* each with the pass that asked for the page
InsideKeys(p, resp, range) ==
    LET IsInside(r) == r.created_at >= range.StartDate /\ r.created_at <= range.EndDate
        inside == SelectSeq(resp, IsInside)
    IN  [i \in 1..Len(inside) |-> <<p, inside[i].number, inside[i].created_at>>]

(***************************************************************************)
(* The six passes of fetchAllItems                                         *)
(***************************************************************************)
\* (mutant) the commented-Issues pass before the assigned-Issues pass
Passes_Swapped ==
    << <<"Issue", "created">>, <<"Issue", "commented">>, <<"Issue", "assigned">>,
       <<"PR", "created">>, <<"PR", "assigned">>, <<"PR", "reviewed">> >>

\* the fetchIssues / fetchPRs calls of fetchAllItems, in program order
Passes ==
    << <<"Issue", "created">>, <<"Issue", "assigned">>, <<"Issue", "commented">>,
       <<"PR", "created">>, <<"PR", "assigned">>, <<"PR", "reviewed">> >>

PassType(p) == Passes[p][1]

\* (mutant) the loop of the second pass copied from the first, tag unchanged
PassTag_Copied(p) ==
    CASE p = 1 -> "created"
      [] p = 2 -> "created"
      [] p = 3 -> "commented"
      [] p = 4 -> "created"
      [] p = 5 -> "assigned"
      [] OTHER -> "reviewed"

\* the constant each pass writes into Involvement
PassTag(p) ==
    CASE p = 1 -> "created"
      [] p = 2 -> "assigned"
      [] p = 3 -> "commented"
      [] p = 4 -> "created"
      [] p = 5 -> "assigned"
      [] OTHER -> "reviewed"

PassInvolvement(p) == Passes[p][2]

getInvolvementQuery(involvement) ==
    CASE involvement = "created" -> "author"
      [] involvement = "assigned" -> "assignee"
      [] involvement = "reviewed" -> "reviewed-by"
      [] involvement = "commented" -> "commenter"
      [] OTHER -> "involves"

\* (mutant) the switch without its case for "commented"
IssueQualifier_NoCommenter(involvement) ==
    CASE involvement = "created" -> "author"
      [] involvement = "assigned" -> "assignee"
      [] OTHER -> "involves"

\* the switch at the head of fetchIssues
IssueQualifier(involvement) ==
    CASE involvement = "created" -> "author"
      [] involvement = "assigned" -> "assignee"
      [] involvement = "commented" -> "commenter"
      [] OTHER -> "involves"

IssuesQuery(username, involvement, range) ==
    <<"search/issues?q=is:issue+", IssueQualifier(involvement), ":", username,
      "+created:>=", FormatDate(range.StartDate), "&per_page=100">>

PRsQuery(username, involvement, range) ==
    <<"search/issues?q=is:pr+", getInvolvementQuery(involvement), ":", username,
      "+created:>=", FormatDate(range.StartDate), "&per_page=100">>

PassQuery(p, username, range) ==
    IF PassType(p) = "Issue" THEN IssuesQuery(username, PassInvolvement(p), range)
    ELSE PRsQuery(username, PassInvolvement(p), range)

pageQuery(q, pg) == q \o <<"&page=", pg>>

(***************************************************************************)
(* Items                                                                   *)
(***************************************************************************)
\* (mutant) the date test without its lower bound
OutsideRange_NoLowerBound(createdAt, range) == createdAt > range.EndDate

\* the date test of the list loop: TRUE when the record is skipped
OutsideRange(createdAt, range) ==
    createdAt > range.EndDate \/ createdAt < range.StartDate

\* (mutant) the Item literal of fetchPRs copied from fetchIssues, kind unchanged
NewItem_KindCopied(type, r) ==
    [Type |-> "Issue", Number |-> r.number, Title |-> r.title, URL |-> r.html_url,
     State |-> r.state, CreatedAt |-> r.created_at, UpdatedAt |-> r.updated_at,
     Author |-> r.user, Assignees |-> r.assignees, Labels |-> r.labels,
     Repository |-> RepoName(r.repository_url), Involvement |-> "",
     Body |-> <<>>, Comments |-> <<>>]

\* the Item literal of fetchIssues (type "Issue") and of fetchPRs (type "PR")
NewItem(type, r) ==
    [Type |-> type, Number |-> r.number, Title |-> r.title, URL |-> r.html_url,
     State |-> r.state, CreatedAt |-> r.created_at, UpdatedAt |-> r.updated_at,
     Author |-> r.user, Assignees |-> r.assignees, Labels |-> r.labels,
     Repository |-> RepoName(r.repository_url), Involvement |-> "",
     Body |-> <<>>, Comments |-> <<>>]

\* (mutant) the range loop left at the first record outside the range
RECURSIVE PageItems_StopsAtSkip(_, _, _)
PageItems_StopsAtSkip(type, resp, range) ==
    IF resp = <<>> THEN <<>>
    ELSE IF OutsideRange(Head(resp).created_at, range) THEN <<>>
    ELSE <<NewItem(type, Head(resp))>> \o PageItems_StopsAtSkip(type, Tail(resp), range)

\* the Items the range loop of fetchIssues / fetchPRs appends for one page
RECURSIVE PageItems(_, _, _)
PageItems(type, resp, range) ==
    IF resp = <<>> THEN <<>>
    ELSE (IF OutsideRange(Head(resp).created_at, range) THEN <<>>
          ELSE <<NewItem(type, Head(resp))>>)
         \o PageItems(type, Tail(resp), range)

NewComment(c) ==
    [Author |-> c.user, Body |-> c.body, CreatedAt |-> c.created_at,
     UpdatedAt |-> c.updated_at]

\* (mutant) the comments of a payload put in place of those the item has
AppendComments_Replacing(comments, payload) ==
    [i \in 1..Len(payload) |-> NewComment(payload[i])]

\* the append loop of fetchComments / fetchReviewComments
RECURSIVE AppendComments(_, _)
AppendComments(comments, payload) ==
    IF payload = <<>> THEN comments
    ELSE AppendComments(Append(comments, NewComment(Head(payload))), Tail(payload))

\* (mutant) fetchPRs wraps its error with the text of fetchIssues
ListError_SameText(type, cause) == <<"Failed to retrieve Issues", cause>>

ListError(type, cause) ==
    <<IF type = "Issue" THEN "Failed to retrieve Issues" ELSE "Failed to retrieve PRs", cause>>

RepoPathError(repository) == <<"Failed to extract repository path", repository>>

BodyError(type, cause) ==
    <<IF type = "Issue" THEN "Failed to retrieve Issue details"
      ELSE "Failed to retrieve PR details", cause>>

CommentsError(cause) == <<"Failed to retrieve comments", cause>>

ReviewError(cause) == <<"Failed to retrieve review comments", cause>>

\* the lower-case form of the names used here
FoldCase(name) == IF name = "Bob" THEN "bob" ELSE name

\* (mutant) the authors compared without regard to case
ShouldKeep_FoldCase(comment, ignoreUsers) ==
    ~ \E k \in 1..Len(ignoreUsers) : FoldCase(comment.Author) = FoldCase(ignoreUsers[k])

\* one user kept or dropped by the inner loop of filterIgnoredUserComments
ShouldKeep(comment, ignoreUsers) ==
    ~ \E k \in 1..Len(ignoreUsers) : comment.Author = ignoreUsers[k]

\* (mutant) the comment loop left after the first comment it drops
RECURSIVE FilterComments_StopsAfterDrop(_, _)
FilterComments_StopsAfterDrop(comments, ignoreUsers) ==
    IF comments = <<>> THEN <<>>
    ELSE IF ShouldKeep(Head(comments), ignoreUsers)
         THEN <<Head(comments)>> \o FilterComments_StopsAfterDrop(Tail(comments), ignoreUsers)
         ELSE Tail(comments)

RECURSIVE FilterComments(_, _)
FilterComments(comments, ignoreUsers) ==
    IF comments = <<>> THEN <<>>
    ELSE (IF ShouldKeep(Head(comments), ignoreUsers) THEN <<Head(comments)>> ELSE <<>>)
         \o FilterComments(Tail(comments), ignoreUsers)

\* (mutant) the filter taking out the items it leaves without a comment
filterIgnoredUserComments_DropsEmptied(its, ignoreUsers) ==
    LET Filtered(item) ==
            [item EXCEPT !.Comments = FilterComments(item.Comments, ignoreUsers)]
        StillCommented(item) ==
            item.Comments = <<>> \/ FilterComments(item.Comments, ignoreUsers) # <<>>
    IN  [i \in 1..Len(SelectSeq(its, StillCommented)) |->
            Filtered(SelectSeq(its, StillCommented)[i])]

\* (mutant) the filter applied to the pull requests only
filterIgnoredUserComments_PullRequestsOnly(its, ignoreUsers) ==
    [i \in 1..Len(its) |->
        IF its[i].Type = "PR"
        THEN [its[i] EXCEPT !.Comments = FilterComments(its[i].Comments, ignoreUsers)]
        ELSE its[i]]

filterIgnoredUserComments(its, ignoreUsers) ==
    [i \in 1..Len(its) |->
        [its[i] EXCEPT !.Comments = FilterComments(its[i].Comments, ignoreUsers)]]

(***************************************************************************)
(* State                                                                   *)
(***************************************************************************)
VARIABLES
    pc,            \* where main is: "main", "user", "fetch", "details",
                   \* "filter", "write", "done", "exit1"
    input,         \* the command line
    dateRange,     \* the parsed range
    username,      \* login of the user
    pass,          \* the pass fetchAllItems is in, 1..6 (0 before the first)
    query,         \* query of the running list fetch
    page,          \* page of the running list fetch
    hasMore,       \* hasMore of the running list fetch
    retryCount,    \* retryCount of the running retry loop
    items,         \* items of the running pass
    allItems,      \* allItems of fetchAllItems, and items of main after it
    idx,           \* index of the detail loop
    stage,         \* call the detail fetch of items[idx] is at
    err,           \* the last error value main or fetchAllItems holds
    file,          \* the output file
    net,           \* the latest attempt of client.Get
    passLog,       \* the list fetches started, in order
    lastResp,      \* "none", "empty" or "items": the page the list loop saw last
    skipped,       \* the running list fetch skipped a record outside the range
    served,        \* pages the API has served to the running list fetch
    handed,        \* records inside the range the API has handed out so far
    fetched,       \* <<pass, number, created_at>> of those records, in the order
                   \* the API handed them out
    passSizes      \* the number of items of each finished pass, in order

vars ==
    <<pc, input, dateRange, username, pass, query, page, hasMore, retryCount, items,
      allItems, idx, stage, err, file, net, passLog, lastResp, skipped, served,
      handed, fetched, passSizes>>

NoFile == [exists |-> FALSE, data |-> <<>>]
NoCall == [call |-> <<"none", 0, 0>>, endpoint |-> <<>>, fails |-> 0, sleep |-> 0]

Init ==
    /\ input \in Inputs
    /\ pc = "main"
    /\ dateRange = ZeroRange
    /\ username = ""
    /\ pass = 0
    /\ query = <<>>
    /\ page = 0
    /\ hasMore = FALSE
    /\ retryCount = 0
    /\ items = <<>>
    /\ allItems = <<>>
    /\ idx = 0
    /\ stage = "none"
    /\ err = Nil
    /\ file = NoFile
    /\ net = NoCall
    /\ passLog = <<>>
    /\ lastResp = "none"
    /\ skipped = FALSE
    /\ served = 0
    /\ handed = 0
    /\ fetched = <<>>
    /\ passSizes = <<>>

NoWait == 0

\* the sleep of a retry loop after a failed attempt that had count failed
\* attempts before it: time.Sleep(2 * time.Second), whatever the count
RetryWait(count) == 2 * Second

\* (mutant) the rate-limit sleep placed before the test for an empty page
PageWait_BeforeEmptyTest(resp) == 1 * Second

\* the sleep of the list loop after the page resp: none after an empty page,
\* which leaves the loop body early, time.Sleep(1 * time.Second) otherwise
PageWait(resp) == IF Len(resp) = 0 THEN NoWait ELSE 1 * Second

\* One attempt of client.Get, seen from the network.  A failed attempt is
\* kept with its call <<kind, pass, page or index>>, its endpoint and the
\* number of failures in a row of that call; an answered one with the kind
\* and the pass of its call.
\* sleep is the time the program sleeps after the attempt, before its next
\* step.
Attempt(call, endpoint, ok, sleep) ==
    net' = IF ok
           THEN [call |-> <<call[1], call[2], 0>>, endpoint |-> <<>>, fails |-> 0,
                 sleep |-> sleep]
           ELSE [call |-> call, endpoint |-> endpoint,
                 fails |-> IF net.call = call THEN net.fails + 1 ELSE 1,
                 sleep |-> sleep]

(***************************************************************************)
(* main, up to the first list fetch                                        *)
(***************************************************************************)
\* fetchAllItems calls fetchIssues / fetchPRs for pass p
EnterPass(p) ==
    /\ pass' = p
    /\ query' = PassQuery(p, username', dateRange)
    /\ page' = 1
    /\ hasMore' = TRUE
    /\ retryCount' = 0
    /\ items' = <<>>
    /\ idx' = 0
    /\ stage' = "none"
    /\ passLog' = Append(passLog, Passes[p])
    /\ lastResp' = "none"
    /\ skipped' = FALSE
    /\ served' = 0

\* (mutant) main without its test of the format flag
InvalidFormat_Skipped(format) == FALSE

\* the test of main on the format flag
InvalidFormat(format) == format # "md" /\ format # "json"

\* main: flags, format validation, ignore list, parseDateRange
ValidateInput ==
    /\ pc = "main"
    /\ IF InvalidFormat(input.format)
       THEN /\ err' = <<"Invalid output format", input.format>>
            /\ pc' = "exit1"
            /\ UNCHANGED dateRange
       ELSE LET parsed == parseDateRange(input.from, input.to)
            IN  IF parsed.err # ""
                THEN /\ err' = <<"Failed to parse dates", parsed.err>>
                     /\ pc' = "exit1"
                     /\ UNCHANGED dateRange
                ELSE /\ dateRange' = parsed.range
                     /\ pc' = "user"
                     /\ UNCHANGED err
    /\ UNCHANGED <<input, username, pass, query, page, hasMore, retryCount, items,
                   allItems, idx, stage, file, net, passLog, lastResp, skipped, served,
                   handed, fetched, passSizes>>

\* main: client.Get("user") fails
GetUserFail ==
    /\ pc = "user"
    /\ \E e \in TransportErrors :
         err' = <<"Failed to retrieve user information", e>>
    /\ Attempt(<<"user", 0, 0>>, <<"user">>, FALSE, NoWait)
    /\ pc' = "exit1"
    /\ UNCHANGED <<input, dateRange, username, pass, query, page, hasMore, retryCount,
                   items, allItems, idx, stage, file, passLog, lastResp, skipped, served,
                   handed, fetched, passSizes>>

\* main: client.Get("user") answers; fetchAllItems starts its first pass
GetUserOk ==
    /\ pc = "user"
    /\ username' \in UserChoices
    /\ Attempt(<<"user", 0, 0>>, <<"user">>, TRUE, NoWait)
    /\ EnterPass(1)
    /\ pc' = "fetch"
    /\ UNCHANGED <<input, dateRange, allItems, err, file, handed, fetched, passSizes>>

(***************************************************************************)
(* fetchIssues / fetchPRs: one attempt of the page request per step        *)
(***************************************************************************)
\* (mutant) a retry loop with <= in its condition
RetryAgain_OneMore(count) == count + 1 <= maxRetries

\* the retry loops: after a failed attempt, with retryCount failures before
\* it, the loop goes round again
RetryAgain(count) == count + 1 < maxRetries

\* (mutant) the ceiling test one page early
CeilingReached_Early(pg) == pg >= PageCeiling

\* the page ceiling of the list loop, tested after page++
CeilingReached(pg) == pg > PageCeiling

\* (mutant) the loop left after the first page with a record inside the range
KeepPaging_UntilFound(resp, range, pg) ==
    ~CeilingReached(pg) /\ \A i \in 1..Len(resp) : OutsideRange(resp[i].created_at, range)

\* (mutant) the loop left after a page with no record inside the range
KeepPaging_UntilExhausted(resp, range, pg) ==
    ~CeilingReached(pg) /\ \E i \in 1..Len(resp) : ~OutsideRange(resp[i].created_at, range)

\* hasMore after the non-empty page resp has been processed and page has
\* become pg: only the ceiling ends the loop
KeepPaging(resp, range, pg) == ~CeilingReached(pg)

\* (mutant) the list loop stepping over a page
NextPage_Skipping(pg) == pg + 2

\* page++ at the end of a round of the list loop
NextPage(pg) == pg + 1

\* (mutant) fetchAllItems hands back what it has collected with the error
AbortResult_Partial(collected) == collected

\* what fetchAllItems returns beside the error of a list fetch: nil
AbortResult(collected) == <<>>

\* the attempt fails; after the last attempt the error goes up through
\* fetchAllItems to main, which exits
ListQueryFail ==
    /\ pc = "fetch"
    /\ hasMore
    /\ Attempt(<<"list", pass, page>>, pageQuery(query, page), FALSE, RetryWait(retryCount))
    /\ \E e \in TransportErrors :
         IF RetryAgain(retryCount)
         THEN /\ retryCount' = retryCount + 1
              /\ UNCHANGED <<pc, err, items, allItems, page, hasMore, query, lastResp,
                             skipped, served>>
         ELSE /\ err' = ListError(PassType(pass), e)
              /\ pc' = "exit1"
              /\ items' = <<>>
              /\ allItems' = AbortResult(allItems)
              /\ page' = 0
              /\ hasMore' = FALSE
              /\ query' = <<>>
              /\ retryCount' = 0
              /\ lastResp' = "none"
              /\ skipped' = FALSE
              /\ served' = 0
    /\ UNCHANGED <<input, dateRange, username, pass, idx, stage, file, passLog, handed, fetched,
                   passSizes>>

\* the attempt succeeds with a page: empty page, or range filter, rate-limit
\* wait, next page and the page ceiling
ListQueryAnswered(resp) ==
    /\ pc = "fetch"
    /\ hasMore
    /\ handed + InsideCount(resp, dateRange) <= MaxItems
    /\ handed' = handed + InsideCount(resp, dateRange)
    /\ fetched' = fetched \o InsideKeys(pass, resp, dateRange)
    /\ IF Len(resp) = 0
       THEN /\ hasMore' = FALSE
            /\ lastResp' = "empty"
            /\ UNCHANGED <<items, page, skipped>>
       ELSE /\ items' = items \o PageItems(PassType(pass), resp, dateRange)
            /\ page' = NextPage(page)
            /\ hasMore' = KeepPaging(resp, dateRange, NextPage(page))
            /\ lastResp' = "items"
            /\ skipped' = (skipped \/ InsideCount(resp, dateRange) < Len(resp))
    /\ Attempt(<<"list", pass, page>>, pageQuery(query, page), TRUE, PageWait(resp))
    /\ retryCount' = 0
    /\ served' = served + 1
    /\ UNCHANGED <<pc, input, dateRange, username, pass, query, allItems, idx, stage,
                   err, file, passLog, passSizes>>

ListQueryOk == \E resp \in PageChoices(dateRange) : ListQueryAnswered(resp)

\* the loop is over: the fetch returns its items and the detail loop starts
FetchReturn ==
    /\ pc = "fetch"
    /\ ~hasMore
    /\ err' = Nil
    /\ pc' = "details"
    /\ idx' = 1
    /\ stage' = "tag"
    /\ page' = 0
    /\ query' = <<>>
    /\ lastResp' = "none"
    /\ skipped' = FALSE
    /\ served' = 0
    /\ UNCHANGED <<input, dateRange, username, pass, hasMore, retryCount, items,
                   allItems, file, net, passLog, handed, fetched, passSizes>>

(***************************************************************************)
(* The detail loop of a pass: fetchIssueDetails / fetchPRDetails           *)
(***************************************************************************)
repoPathOf(item) == getRepoPathFromURL(item.Repository)

issueURL(item) == <<"repos/", repoPathOf(item), "/issues/", item.Number>>
prURL(item) == <<"repos/", repoPathOf(item), "/pulls/", item.Number>>
issueCommentsURL(item) == <<"repos/", repoPathOf(item), "/issues/", item.Number, "/comments">>
reviewCommentsURL(item) == <<"repos/", repoPathOf(item), "/pulls/", item.Number, "/comments">>

detailURL(item) == IF item.Type = "Issue" THEN issueURL(item) ELSE prURL(item)

\* (mutant) fetchAllItems returns the error of a detail fetch to main
LoopAfter_Abort(e) == IF e = Nil THEN "details" ELSE "exit1"

\* where fetchAllItems goes when the detail fetch of an item returned e:
\* it prints a warning when e is an error, and stays in its loop
LoopAfter(e) == "details"

\* the detail fetch of items[idx] is over with result e; the loop goes on
NextItem(e) ==
    /\ err' = e
    /\ pc' = LoopAfter(e)
    /\ idx' = idx + 1
    /\ stage' = "tag"
    /\ retryCount' = 0

\* head of the loop body: the tag, then the repository path of the item
TagItem ==
    /\ pc = "details"
    /\ stage = "tag"
    /\ idx <= Len(items)
    /\ items' = [items EXCEPT ![idx].Involvement = PassTag(pass)]
    /\ IF repoPathOf(items[idx]) = <<>>
       THEN NextItem(RepoPathError(items[idx].Repository))
       ELSE /\ stage' = "body"
            /\ retryCount' = 0
            /\ UNCHANGED <<pc, err, idx>>
    /\ UNCHANGED <<input, dateRange, username, pass, query, page, hasMore, allItems,
                   file, net, passLog, lastResp, skipped, served, handed, fetched, passSizes>>

BodyQueryFail ==
    /\ pc = "details"
    /\ stage = "body"
    /\ Attempt(<<"body", pass, idx>>, detailURL(items[idx]), FALSE, RetryWait(retryCount))
    /\ \E e \in TransportErrors :
         IF RetryAgain(retryCount)
         THEN /\ retryCount' = retryCount + 1
              /\ UNCHANGED <<pc, err, idx, stage>>
         ELSE NextItem(BodyError(items[idx].Type, e))
    /\ UNCHANGED <<input, dateRange, username, pass, query, page, hasMore, items,
                   allItems, file, passLog, lastResp, skipped, served, handed, fetched, passSizes>>

\* (mutant) the body kept back when the body call returns
SetBody_Deferred(item, body) == item

\* item.Body = issueDetail.Body, right after the body call
SetBody(item, body) == [item EXCEPT !.Body = body]

BodyQueryOk ==
    /\ pc = "details"
    /\ stage = "body"
    /\ Attempt(<<"body", pass, idx>>, detailURL(items[idx]), TRUE, NoWait)
    /\ \E body \in BodyChoices :
         items' = [items EXCEPT ![idx] = SetBody(@, body)]
    /\ stage' = "comments"
    /\ retryCount' = 0
    /\ UNCHANGED <<pc, input, dateRange, username, pass, query, page, hasMore, allItems,
                   idx, err, file, passLog, lastResp, skipped, served, handed, fetched, passSizes>>

CommentsQueryFail ==
    /\ pc = "details"
    /\ stage = "comments"
    /\ Attempt(<<"comments", pass, idx>>, issueCommentsURL(items[idx]), FALSE, RetryWait(retryCount))
    /\ \E e \in TransportErrors :
         IF RetryAgain(retryCount)
         THEN /\ retryCount' = retryCount + 1
              /\ UNCHANGED <<pc, err, idx, stage>>
         ELSE NextItem(CommentsError(e))
    /\ UNCHANGED <<input, dateRange, username, pass, query, page, hasMore, items,
                   allItems, file, passLog, lastResp, skipped, served, handed, fetched, passSizes>>

CommentsQueryOk ==
    /\ pc = "details"
    /\ stage = "comments"
    /\ Attempt(<<"comments", pass, idx>>, issueCommentsURL(items[idx]), TRUE, NoWait)
    /\ \E payload \in GeneralChoices :
         items' = [items EXCEPT ![idx].Comments = AppendComments(@, payload)]
    /\ IF items[idx].Type = "Issue"
       THEN NextItem(Nil)
       ELSE /\ stage' = "review"
            /\ retryCount' = 0
            /\ UNCHANGED <<pc, err, idx>>
    /\ UNCHANGED <<input, dateRange, username, pass, query, page, hasMore, allItems,
                   file, passLog, lastResp, skipped, served, handed, fetched, passSizes>>

ReviewQueryFail ==
    /\ pc = "details"
    /\ stage = "review"
    /\ Attempt(<<"review", pass, idx>>, reviewCommentsURL(items[idx]), FALSE, RetryWait(retryCount))
    /\ \E e \in TransportErrors :
         IF RetryAgain(retryCount)
         THEN /\ retryCount' = retryCount + 1
              /\ UNCHANGED <<pc, err, idx, stage>>
         ELSE NextItem(ReviewError(e))
    /\ UNCHANGED <<input, dateRange, username, pass, query, page, hasMore, items,
                   allItems, file, passLog, lastResp, skipped, served, handed, fetched, passSizes>>

ReviewQueryOk ==
    /\ pc = "details"
    /\ stage = "review"
    /\ Attempt(<<"review", pass, idx>>, reviewCommentsURL(items[idx]), TRUE, NoWait)
    /\ \E payload \in ReviewChoices :
         items' = [items EXCEPT ![idx].Comments = AppendComments(@, payload)]
    /\ NextItem(Nil)
    /\ UNCHANGED <<input, dateRange, username, pass, query, page, hasMore, allItems,
                   file, passLog, lastResp, skipped, served, handed, fetched, passSizes>>

\* (mutant) the items of the pass put in front of the aggregate
AppendItems_InFront(all, its) == its \o all

\* (mutant) an item left out when the aggregate has an item of its number
AppendItems_Deduplicated(all, its) ==
    LET IsNew(item) == \A i \in 1..Len(all) : all[i].Number # item.Number
    IN  all \o SelectSeq(its, IsNew)

\* allItems = append(allItems, <items of the pass>...)
AppendItems(all, its) == all \o its

\* the loop of the pass is over: its items join allItems, and the next pass
\* starts or fetchAllItems returns to main
AppendPass ==
    /\ pc = "details"
    /\ stage = "tag"
    /\ idx > Len(items)
    /\ UNCHANGED <<input, dateRange, username, file, net, handed, fetched>>
    /\ allItems' = AppendItems(allItems, items)
    /\ passSizes' = Append(passSizes, Len(items))
    /\ IF pass < Len(Passes)
       THEN /\ EnterPass(pass + 1)
            /\ pc' = "fetch"
            /\ UNCHANGED err
       ELSE /\ pc' = "filter"
            /\ err' = Nil
            /\ items' = <<>>
            /\ idx' = 0
            /\ stage' = "none"
            /\ retryCount' = 0
            /\ UNCHANGED <<pass, query, page, hasMore, passLog, lastResp, skipped, served>>

(***************************************************************************)
(* The report: writeResultsToFile, writeJSONFormat, writeMarkdownFormat    *)
(***************************************************************************)
BodyCap == 300
CommentCap == 200
maxComments == 5

Ellipsis == <<".", ".", ".">>

\* body[:cap] + "..." when the text is longer than cap
Truncate(text, cap) ==
    IF Len(text) > cap THEN SubSeq(text, 1, cap) \o Ellipsis ELSE text

\* strings.ReplaceAll(text, "\n", "\n" + indent)
\* (the text is taken by halves, which keeps the evaluation shallow on
\* texts of hundreds of bytes)
RECURSIVE ReplaceNewlines(_, _)
ReplaceNewlines(text, indent) ==
    IF text = <<>> THEN <<>>
    ELSE IF Len(text) = 1
         THEN (IF text[1] = "\n" THEN <<"\n">> \o indent ELSE text)
         ELSE LET half == Len(text) \div 2
              IN  ReplaceNewlines(SubSeq(text, 1, half), indent)
                  \o ReplaceNewlines(SubSeq(text, half + 1, Len(text)), indent)

Indent4 == <<" ", " ", " ", " ">>
Indent6 == <<" ", " ", " ", " ", " ", " ">>

RECURSIVE CountItems(_, _)
CountItems(Test(_), its) ==
    IF its = <<>> THEN 0
    ELSE (IF Test(Head(its)) THEN 1 ELSE 0) + CountItems(Test, Tail(its))

\* the two counting loops of writeMarkdownFormat
CountKind(its, kind) ==
    LET IsKind(item) == item.Type = kind
    IN  CountItems(IsKind, its)

\* (mutant) the counting loop started at the second item
CountInvolvement_SkipsFirst(its, involvement) ==
    LET IsIn(item) == item.Involvement = involvement
    IN  IF its = <<>> THEN 0 ELSE CountItems(IsIn, Tail(its))

CountInvolvement(its, involvement) ==
    LET IsIn(item) == item.Involvement = involvement
    IN  CountItems(IsIn, its)

CommentLines(comment) ==
    << <<"    - ", comment.Author, " (", FormatDate(comment.CreatedAt), "):">>,
       <<"      ", ReplaceNewlines(Truncate(comment.Body, CommentCap), Indent6)>> >>

\* (mutant) the comment loop with > in its test
RECURSIVE CommentBlock_OneMore(_, _)
CommentBlock_OneMore(comments, count) ==
    IF comments = <<>> \/ count > maxComments THEN <<>>
    ELSE CommentLines(Head(comments)) \o CommentBlock_OneMore(Tail(comments), count + 1)

\* the comment loop of writeItemDetails: it stops after maxComments
RECURSIVE CommentBlock(_, _)
CommentBlock(comments, count) ==
    IF comments = <<>> \/ count >= maxComments THEN <<>>
    ELSE CommentLines(Head(comments)) \o CommentBlock(Tail(comments), count + 1)

writeItemDetails(item) ==
    << <<"- [", item.Type, " #", item.Number, "] ", item.Title>>,
       <<"  - URL: ", item.URL>>,
       <<"  - Repository: ", item.Repository>>,
       <<"  - State: ", item.State>>,
       <<"  - Created on: ", FormatDate(item.CreatedAt)>>,
       <<"  - Updated on: ", FormatDate(item.UpdatedAt)>> >>
    \o (IF Len(item.Assignees) > 0 THEN << <<"  - Assignees: ", item.Assignees>> >> ELSE <<>>)
    \o (IF Len(item.Labels) > 0 THEN << <<"  - Labels: ", item.Labels>> >> ELSE <<>>)
    \o (IF item.Body # <<>>
        THEN << <<"  - Body:">>,
                <<"    ", ReplaceNewlines(Truncate(item.Body, BodyCap), Indent4)>> >>
        ELSE <<>>)
    \o (IF Len(item.Comments) > 0
        THEN << <<"  - Comments (", Len(item.Comments), "):">> >>
             \o (IF Len(item.Comments) > maxComments
                 THEN << <<"    (Only the first ", maxComments, " shown)">> >>
                 ELSE <<>>)
             \o CommentBlock(item.Comments, 0)
        ELSE <<>>)
    \o << <<"">> >>

\* one subsection of the detail list: the items of one involvement, in order
RECURSIVE SectionItems(_, _)
SectionItems(its, involvement) ==
    IF its = <<>> THEN <<>>
    ELSE (IF Head(its).Involvement = involvement THEN writeItemDetails(Head(its)) ELSE <<>>)
         \o SectionItems(Tail(its), involvement)

\* (mutant) the subsection written without the test of its count
Section_AlwaysShown(its, involvement, title) ==
    << <<title>>, <<"">> >> \o SectionItems(its, involvement)

Section(its, involvement, title) ==
    IF CountInvolvement(its, involvement) > 0
    THEN << <<title>>, <<"">> >> \o SectionItems(its, involvement)
    ELSE <<>>

writeMarkdownFormat(its, user, range) ==
        << <<"# GitHub Activity Report - ", user>>,
           <<"Period: ", FormatDate(range.StartDate), " to ", FormatDate(range.EndDate)>>,
           <<"">>,
           <<"## Summary">>,
           <<"- Total items: ", Len(its)>>,
           <<"- Number of PRs: ", CountKind(its, "PR")>>,
           <<"- Number of Issues: ", CountKind(its, "Issue")>>,
           <<"">>,
           <<"- Created items: ", CountInvolvement(its, "created")>>,
           <<"- Assigned items: ", CountInvolvement(its, "assigned")>>,
           <<"- Commented items: ", CountInvolvement(its, "commented")>>,
           <<"- Reviewed items: ", CountInvolvement(its, "reviewed")>>,
           <<"">>,
           <<"## Item Details">>,
           <<"">> >>
        \o Section(its, "created", "### Created Items")
        \o Section(its, "assigned", "### Assigned Items")
        \o Section(its, "commented", "### Commented Items")
        \o Section(its, "reviewed", "### Reviewed Items")

\* json.MarshalIndent(items, "", "  ").  A string goes out between quotes
\* with its quote, backslash and newline bytes escaped, a number as its
\* decimal digits, a time as its date and its time of day (RFC 3339, UTC), a
\* nil slice as null, any other slice as an array, a struct as an object
\* with its fields in the order of their declaration.
EscapeByte(b) ==
    CASE b = "\"" -> <<"\\", "\"">>
      [] b = "\\" -> <<"\\", "\\">>
      [] b = "\n" -> <<"\\", "n">>
      [] OTHER -> <<b>>

\* (the text is taken by halves, as in ReplaceNewlines)
RECURSIVE EncodeString(_)
EncodeString(text) ==
    IF text = <<>> THEN <<>>
    ELSE IF Len(text) = 1 THEN EscapeByte(text[1])
    ELSE LET half == Len(text) \div 2
         IN  EncodeString(SubSeq(text, 1, half))
             \o EncodeString(SubSeq(text, half + 1, Len(text)))

RECURSIVE Digits(_)
Digits(n) == IF n < 10 THEN <<n>> ELSE Append(Digits(n \div 10), n % 10)

FormatTime(t) == <<FormatDate(t), t % Day>>

JSONStrings(list) == <<"[">> \o list

JSONComment(c) ==
    <<"{", <<"Author", c.Author>>, <<"Body", EncodeString(c.Body)>>,
      <<"CreatedAt", FormatTime(c.CreatedAt)>>, <<"UpdatedAt", FormatTime(c.UpdatedAt)>> >>

\* (mutant) the comments cut to the first maxComments, as the narrative
\* report shows them
JSONComments_FirstFive(comments) ==
    IF comments = <<>> THEN <<"null">>
    ELSE <<"[">> \o [i \in 1..(IF Len(comments) < maxComments THEN Len(comments)
                             ELSE maxComments) |-> JSONComment(comments[i])]

\* the Comments field: nil when the item has no comment
JSONComments(comments) ==
    IF comments = <<>> THEN <<"null">>
    ELSE <<"[">> \o [i \in 1..Len(comments) |-> JSONComment(comments[i])]

JSONItem(item) ==
    <<"{", <<"Type", item.Type>>, <<"Number", Digits(item.Number)>>,
      <<"Title", item.Title>>, <<"URL", item.URL>>, <<"State", item.State>>,
      <<"CreatedAt", FormatTime(item.CreatedAt)>>,
      <<"UpdatedAt", FormatTime(item.UpdatedAt)>>,
      <<"Author", item.Author>>, <<"Assignees", JSONStrings(item.Assignees)>>,
      <<"Labels", JSONStrings(item.Labels)>>,
      <<"Repository", EncodeString(item.Repository)>>,
      <<"Involvement", item.Involvement>>, <<"Body", EncodeString(item.Body)>>,
      <<"Comments", JSONComments(item.Comments)>> >>

\* the file written: one piece for null or one piece per element of the
\* array; the collection of a run without items is a nil slice
writeJSONFormat(its) ==
    IF its = <<>> THEN << <<"null">> >> ELSE [i \in 1..Len(its) |-> JSONItem(its[i])]

\* (mutant) the file opened for appending, what it holds left in place
Create_Appending(old) == [exists |-> TRUE, data |-> old.data]

\* os.Create(filename) succeeded: the file exists and is empty, whatever
\* was at filename before
Create(old) == [exists |-> TRUE, data |-> <<>>]

\* the renderer writes its output behind what the file holds
Write(f, lines) == [f EXCEPT !.data = @ \o lines]

\* old is the file at filename when the call starts; after os.Create the
\* format switch writes into the file or returns the error
writeResultsToFile(its, old, user, range, format) ==
    CASE format = "json" ->
           [err |-> Nil, file |-> Write(Create(old), writeJSONFormat(its))]
      [] format = "md" ->
           [err |-> Nil, file |-> Write(Create(old), writeMarkdownFormat(its, user, range))]
      [] OTHER ->
           [err |-> <<"Unsupported output format", format>>, file |-> Create(old)]

(***************************************************************************)
(* main, after fetchAllItems                                               *)
(***************************************************************************)
FilterStep ==
    /\ pc = "filter"
    /\ allItems' = IF Len(input.ignore) > 0
                   THEN filterIgnoredUserComments(allItems, input.ignore)
                   ELSE allItems
    /\ pc' = "write"
    /\ UNCHANGED <<input, dateRange, username, pass, query, page, hasMore, retryCount,
                   items, idx, stage, err, file, net, passLog, lastResp, skipped, served,
                   handed, fetched, passSizes>>

\* os.Create fails: nothing is written
WriteCreateFail ==
    /\ pc = "write"
    /\ err' = <<"Failed to write to file", "create">>
    /\ pc' = "exit1"
    /\ UNCHANGED <<input, dateRange, username, pass, query, page, hasMore, retryCount,
                   items, allItems, idx, stage, file, net, passLog, lastResp, skipped,
                   served, handed, fetched, passSizes>>

WriteResults ==
    /\ pc = "write"
    /\ LET r == writeResultsToFile(allItems, file, username, dateRange, input.format)
       IN  /\ file' = r.file
           /\ err' = r.err
           /\ pc' = IF r.err = Nil THEN "done" ELSE "exit1"
    /\ UNCHANGED <<input, dateRange, username, pass, query, page, hasMore, retryCount,
                   items, allItems, idx, stage, net, passLog, lastResp, skipped, served,
                   handed, fetched, passSizes>>

Next ==
    \/ ValidateInput
    \/ GetUserFail
    \/ GetUserOk
    \/ ListQueryFail
    \/ ListQueryOk
    \/ FetchReturn
    \/ TagItem
    \/ BodyQueryFail
    \/ BodyQueryOk
    \/ CommentsQueryFail
    \/ CommentsQueryOk
    \/ ReviewQueryFail
    \/ ReviewQueryOk
    \/ AppendPass
    \/ FilterStep
    \/ WriteCreateFail
    \/ WriteResults

Spec == Init /\ [][Next]_vars

(***************************************************************************)
(* The report writer on its own: writeResultsToFile called with any        *)
(* format token and a small item collection, the file present or not      *)
(***************************************************************************)
\* items of one collection handed to the writer
MaxWriteItems == 2

OldFile == [exists |-> TRUE, data |-> << <<"old">> >>]

WriteRange == parseDateRange(<<3, 1>>, <<3, 1>>).range

SampleComments == AppendComments(<<>>, <<ApiComment("alice", <<"g", "1">>, 1), ApiComment("bob", <<"r", "1">>, 3)>>)

\* n times the byte c
Repeat(c, n) == [i \in 1..n |-> c]

\* the bytes of n characters of three bytes each, as UTF-8 writes them
WideText(n) ==
    [i \in 1..(3 * n) |-> CASE i % 3 = 1 -> "E3" [] i % 3 = 2 -> "81" [] OTHER -> "82"]

\* n comments, one a day, the second of them with the given body
CommentsWith(n, second) ==
    [i \in 1..n |->
        [Author |-> IF i % 2 = 1 THEN "alice" ELSE "bob",
         Body |-> IF i = 2 THEN second ELSE <<"c", "\n", "d">>,
         CreatedAt |-> WriteRange.StartDate + (i - 1) * Day,
         UpdatedAt |-> WriteRange.StartDate + (i - 1) * Day]]

\* items with texts at and over the caps and comments at and over the limit
LongItems ==
    {[NewItem("Issue", ApiRecord(5, WriteRange.StartDate, GoodRepoURL))
        EXCEPT !.Involvement = "created",
               !.Body = Repeat("a", 150) \o <<"\n">> \o Repeat("a", 150),
               !.Comments = CommentsWith(6, Repeat("c", 201))],
     [NewItem("PR", ApiRecord(6, WriteRange.StartDate, GoodRepoURL))
        EXCEPT !.Involvement = "assigned",
               !.Body = Repeat("a", 300),
               !.Comments = CommentsWith(5, Repeat("c", 200))],
     [NewItem("Issue", ApiRecord(7, WriteRange.EndDate, GoodRepoURL))
        EXCEPT !.Involvement = "commented",
               !.Body = WideText(101),
               !.Comments = CommentsWith(1, <<>>)]}

\* an item whose texts have the bytes the structured format escapes
QuotedItem ==
    [NewItem("Issue", ApiRecord(8, WriteRange.StartDate, GoodRepoURL))
        EXCEPT !.Involvement = "assigned",
               !.Body = <<"q", "\"", "\\", "n", "\n", "\\">>,
               !.Comments = CommentsWith(2, <<"\\", "\\", "\"", "\\">>)]

SampleItems ==
    LongItems \cup
    {QuotedItem,
     [NewItem("Issue", ApiRecord(2, WriteRange.StartDate, GoodRepoURL))
        EXCEPT !.Involvement = "created", !.Body = <<"b">>],
     [NewItem("Issue", ApiRecord(3, WriteRange.EndDate, BadRepoURL))
        EXCEPT !.Involvement = "commented"],
     [NewItem("PR", ApiRecord(2, WriteRange.StartDate, GoodRepoURL))
        EXCEPT !.Involvement = "reviewed", !.Body = <<"b">>, !.Comments = SampleComments],
     [NewItem("PR", ApiRecord(3, WriteRange.EndDate, BadRepoURL))
        EXCEPT !.Involvement = "assigned"]}

InitWrite ==
    /\ input \in {[format |-> f, ignore |-> <<>>, from |-> <<3, 1>>, to |-> <<3, 1>>] :
                    f \in {"md", "json", "xml", ""}}
    /\ pc = "write"
    /\ dateRange = WriteRange
    /\ username \in UserChoices
    /\ allItems \in SeqsUpTo(SampleItems, MaxWriteItems)
    /\ file \in {NoFile, OldFile}
    /\ pass = 0
    /\ query = <<>>
    /\ page = 0
    /\ hasMore = FALSE
    /\ retryCount = 0
    /\ items = <<>>
    /\ idx = 0
    /\ stage = "none"
    /\ err = Nil
    /\ net = NoCall
    /\ passLog = <<>>
    /\ lastResp = "none"
    /\ skipped = FALSE
    /\ served = 0
    /\ handed = 0
    /\ fetched = <<>>
    /\ passSizes = <<>>

\* the same call once more, on the file the first call left
WriteAgain ==
    /\ pc = "done"
    /\ LET r == writeResultsToFile(allItems, file, username, dateRange, input.format)
       IN  /\ file' = r.file
           /\ err' = r.err
    /\ pc' = "rewritten"
    /\ UNCHANGED <<input, dateRange, username, pass, query, page, hasMore, retryCount,
                   items, allItems, idx, stage, net, passLog, lastResp, skipped, served,
                   handed, fetched, passSizes>>

NextWrite ==
    \/ WriteCreateFail
    \/ WriteResults
    \/ WriteAgain

SpecWrite == InitWrite /\ [][NextWrite]_vars

(***************************************************************************)
(* The comment filter on its own: filterIgnoredUserComments called twice   *)
(* in a row with the same ignore list on a small item collection           *)
(***************************************************************************)
\* items of one collection handed to the filter
MaxFilterItems == 2

\* comments of one item handed to the filter
MaxCommentLen == 2

CommentAuthors == {"alice", "bob", "Bob"}

IgnoreChoices == {<<>>, <<"bob">>, <<"Bob", "alice">>, <<"carol">>}

\* a comment list with the given authors; CreatedAt is the place of the
\* comment in the list
CommentsBy(authors) ==
    [i \in 1..Len(authors) |->
        [Author |-> authors[i], Body |-> <<"c">>, CreatedAt |-> i, UpdatedAt |-> i]]

\* the item at place k of a collection: Issues at the odd places and pull
\* requests at the even ones, each with its own number, date, repository
\* and category
FilterItem(k, authors) ==
    [NewItem(IF k % 2 = 1 THEN "Issue" ELSE "PR",
             ApiRecord(k + 1, WriteRange.StartDate + k,
                       IF k = 2 THEN BadRepoURL ELSE GoodRepoURL))
        EXCEPT !.Involvement = IF k = 1 THEN "created"
                               ELSE IF k = 2 THEN "reviewed" ELSE "commented",
               !.Body = IF k = 2 THEN <<>> ELSE <<"b">>,
               !.Comments = CommentsBy(authors)]

\* the collections handed to the filter: up to MaxFilterItems items, each
\* with any comment list of up to MaxCommentLen comments
FilterItems(authorLists) ==
    [k \in 1..Len(authorLists) |-> FilterItem(k, authorLists[k])]

InitFilter ==
    /\ input \in {[format |-> "md", ignore |-> u, from |-> <<3, 1>>, to |-> <<3, 1>>] :
                    u \in IgnoreChoices}
    /\ pc = "filter"
    /\ dateRange = WriteRange
    /\ username \in UserChoices
    /\ \E authorLists \in SeqsUpTo(SeqsUpTo(CommentAuthors, MaxCommentLen), MaxFilterItems) :
         allItems = FilterItems(authorLists)
    /\ file = NoFile
    /\ pass = 0
    /\ query = <<>>
    /\ page = 0
    /\ hasMore = FALSE
    /\ retryCount = 0
    /\ items = <<>>
    /\ idx = 0
    /\ stage = "none"
    /\ err = Nil
    /\ net = NoCall
    /\ passLog = <<>>
    /\ lastResp = "none"
    /\ skipped = FALSE
    /\ served = 0
    /\ handed = 0
    /\ fetched = <<>>
    /\ passSizes = <<>>

\* filterIgnoredUserComments(items, ignoreUsers), whatever the ignore list
FilterCall ==
    /\ pc = "filter"
    /\ allItems' = filterIgnoredUserComments(allItems, input.ignore)
    /\ pc' = "filtered"
    /\ UNCHANGED <<input, dateRange, username, pass, query, page, hasMore, retryCount,
                   items, idx, stage, err, file, net, passLog, lastResp, skipped, served,
                   handed, fetched, passSizes>>

\* the same call once more on the collection the first call left
FilterAgain ==
    /\ pc = "filtered"
    /\ allItems' = filterIgnoredUserComments(allItems, input.ignore)
    /\ pc' = "refiltered"
    /\ UNCHANGED <<input, dateRange, username, pass, query, page, hasMore, retryCount,
                   items, idx, stage, err, file, net, passLog, lastResp, skipped, served,
                   handed, fetched, passSizes>>

NextFilter ==
    \/ FilterCall
    \/ FilterAgain

SpecFilter == InitFilter /\ [][NextFilter]_vars

(***************************************************************************)
(* The head of fetchIssues / fetchPRs on its own: the query built for any  *)
(* kind, involvement, user and start date                                  *)
(***************************************************************************)
InvolvementChoices == {"created", "assigned", "commented", "reviewed", "mentioned", ""}

QueryUsers == {"alice", "bob"}

StartChoices == {<<1, 1>>, <<2, 28>>, <<3, 1>>, <<10, 9>>, <<12, 31>>}

InitQuery ==
    /\ input \in {[format |-> "md", ignore |-> <<>>, from |-> d, to |-> <<12, 31>>] :
                    d \in StartChoices}
    /\ passLog \in {<< <<kind, involvement>> >> :
                      kind \in {"Issue", "PR"}, involvement \in InvolvementChoices}
    /\ username \in QueryUsers
    /\ dateRange = parseDateRange(input.from, input.to).range
    /\ pc = "query"
    /\ allItems = <<>>
    /\ file = NoFile
    /\ pass = 0
    /\ query = <<>>
    /\ page = 0
    /\ hasMore = FALSE
    /\ retryCount = 0
    /\ items = <<>>
    /\ idx = 0
    /\ stage = "none"
    /\ err = Nil
    /\ net = NoCall
    /\ lastResp = "none"
    /\ skipped = FALSE
    /\ served = 0
    /\ handed = 0
    /\ fetched = <<>>
    /\ passSizes = <<>>

\* fetchIssues / fetchPRs up to its loop: the query, items, page, hasMore
BuildQuery ==
    /\ pc = "query"
    /\ query' = IF passLog[1][1] = "Issue"
                THEN IssuesQuery(username, passLog[1][2], dateRange)
                ELSE PRsQuery(username, passLog[1][2], dateRange)
    /\ page' = 1
    /\ hasMore' = TRUE
    /\ pc' = "built"
    /\ UNCHANGED <<input, dateRange, username, pass, retryCount, items, allItems, idx,
                   stage, err, file, net, passLog, lastResp, skipped, served, handed,
                   fetched, passSizes>>

NextQuery == BuildQuery

SpecQuery == InitQuery /\ [][NextQuery]_vars

(***************************************************************************)
(* The detail fetch on its own: fetchIssueDetails / fetchPRDetails called  *)
(* by the loop of a pass for an item as the list fetch builds it, for      *)
(* repository URLs of several shapes                                       *)
(***************************************************************************)
\* repository_url values: the usual one, one without a slash, the empty one,
\* and three whose last two pieces give "http:/", "http:/r" and "o/"
DetailRepoURLs ==
    {GoodRepoURL, BadRepoURL, <<>>,
     <<"h", "t", "t", "p", ":", "/">>,
     <<"h", "t", "t", "p", ":", "/", "r">>,
     <<"g", "/", "o", "/">>}

InitDetail ==
    /\ input = [format |-> "md", ignore |-> <<>>, from |-> <<3, 1>>, to |-> <<3, 1>>]
    /\ pc = "details"
    /\ dateRange = WriteRange
    /\ username \in UserChoices
    /\ pass \in 1..Len(Passes)
    /\ \E repoURL \in DetailRepoURLs :
         items = <<NewItem(PassType(pass), ApiRecord(2, WriteRange.StartDate, repoURL))>>
    /\ idx = 1
    /\ stage = "tag"
    /\ passLog = SubSeq(Passes, 1, pass)
    /\ passSizes = [k \in 1..(pass - 1) |-> 0]
    /\ allItems = <<>>
    /\ file = NoFile
    /\ query = <<>>
    /\ page = 0
    /\ hasMore = FALSE
    /\ retryCount = 0
    /\ err = Nil
    /\ net = NoCall
    /\ lastResp = "none"
    /\ skipped = FALSE
    /\ served = 0
    /\ handed = 0
    /\ fetched = <<>>

NextDetail ==
    \/ TagItem
    \/ BodyQueryFail
    \/ BodyQueryOk
    \/ CommentsQueryFail
    \/ CommentsQueryOk
    \/ ReviewQueryFail
    \/ ReviewQueryOk

SpecDetail == InitDetail /\ [][NextDetail]_vars

(***************************************************************************)
(* The run in which the API answers every request at its first attempt,    *)
(* for both formats, with and without names to ignore                      *)
(***************************************************************************)
AnsweredInputs ==
    {[format |-> f, ignore |-> u, from |-> <<3, 1>>, to |-> <<3, 1>>] :
        f \in {"md", "json"}, u \in {<<>>, <<"bob">>}}

InitAnswered ==
    /\ input \in AnsweredInputs
    /\ pc = "main"
    /\ dateRange = ZeroRange
    /\ username = ""
    /\ pass = 0
    /\ query = <<>>
    /\ page = 0
    /\ hasMore = FALSE
    /\ retryCount = 0
    /\ items = <<>>
    /\ allItems = <<>>
    /\ idx = 0
    /\ stage = "none"
    /\ err = Nil
    /\ file = NoFile
    /\ net = NoCall
    /\ passLog = <<>>
    /\ lastResp = "none"
    /\ skipped = FALSE
    /\ served = 0
    /\ handed = 0
    /\ fetched = <<>>
    /\ passSizes = <<>>

NextAnswered ==
    \/ ValidateInput
    \/ GetUserOk
    \/ ListQueryOk
    \/ FetchReturn
    \/ TagItem
    \/ BodyQueryOk
    \/ CommentsQueryOk
    \/ ReviewQueryOk
    \/ AppendPass
    \/ FilterStep
    \/ WriteCreateFail
    \/ WriteResults

SpecAnswered == InitAnswered /\ [][NextAnswered]_vars

(***************************************************************************)
(* The refactored pipeline: fetchAllItems of the second main package       *)
(* (refactored_...) driving the Client of package github (github_...).     *)
(* It runs on the state of the first one: the same locals under the same   *)
(* names, the same API.                                                    *)
(***************************************************************************)
github_maxRetries == 3

github_PageCeiling == 10

\* the Client.FetchIssues / Client.FetchPRs calls of fetchAllItems, in program order
refactored_Passes ==
    << <<"Issue", "created">>, <<"Issue", "assigned">>, <<"Issue", "commented">>,
       <<"PR", "created">>, <<"PR", "assigned">>, <<"PR", "reviewed">> >>

refactored_PassType(p) == refactored_Passes[p][1]

\* the constant each pass writes into Involvement
refactored_PassTag(p) ==
    CASE p = 1 -> "created"
      [] p = 2 -> "assigned"
      [] p = 3 -> "commented"
      [] p = 4 -> "created"
      [] p = 5 -> "assigned"
      [] OTHER -> "reviewed"

refactored_PassInvolvement(p) == refactored_Passes[p][2]

github_getInvolvementQuery(involvement) ==
    CASE involvement = "created" -> "author"
      [] involvement = "assigned" -> "assignee"
      [] involvement = "reviewed" -> "reviewed-by"
      [] involvement = "commented" -> "commenter"
      [] OTHER -> "involves"

\* the switch at the head of Client.FetchIssues
github_IssueQualifier(involvement) ==
    CASE involvement = "created" -> "author"
      [] involvement = "assigned" -> "assignee"
      [] involvement = "commented" -> "commenter"
      [] OTHER -> "involves"

github_IssuesQuery(user, involvement, range) ==
    <<"search/issues?q=is:issue+", github_IssueQualifier(involvement), ":", user,
      "+created:>=", FormatDate(range.StartDate), "&per_page=100">>

github_PRsQuery(user, involvement, range) ==
    <<"search/issues?q=is:pr+", github_getInvolvementQuery(involvement), ":", user,
      "+created:>=", FormatDate(range.StartDate), "&per_page=100">>

refactored_PassQuery(p, user, range) ==
    IF refactored_PassType(p) = "Issue"
    THEN github_IssuesQuery(user, refactored_PassInvolvement(p), range)
    ELSE github_PRsQuery(user, refactored_PassInvolvement(p), range)

github_pageQuery(q, pg) == q \o <<"&page=", pg>>

github_getRepoPathFromURL(repoURL) ==
    IF HasPrefix(repoURL, Http)
    THEN LET u == UrlParse(repoURL)
         IN  IF u.err THEN <<>> ELSE TrimPrefix(u.Path, <<"/">>)
    ELSE IF Contains(repoURL, "/") THEN repoURL
    ELSE <<>>

\* the repository name of a list record: the last two pieces of its
\* repository_url, "" when there are fewer than two pieces
github_RepoName(repoURL) ==
    LET repoParts == Split(repoURL)
        n == Len(repoParts)
    IN  IF n >= 2 THEN repoParts[n - 1] \o <<"/">> \o repoParts[n] ELSE <<>>

\* the date test of the list loop: TRUE when the record is skipped
github_OutsideRange(createdAt, range) ==
    createdAt > range.EndDate \/ createdAt < range.StartDate

github_NewItem(type, r) ==
    [Type |-> type, Number |-> r.number, Title |-> r.title, URL |-> r.html_url,
     State |-> r.state, CreatedAt |-> r.created_at, UpdatedAt |-> r.updated_at,
     Author |-> r.user, Assignees |-> r.assignees, Labels |-> r.labels,
     Repository |-> github_RepoName(r.repository_url), Involvement |-> "",
     Body |-> <<>>, Comments |-> <<>>]

\* the Items the range loop of Client.FetchIssues / Client.FetchPRs appends for one page
RECURSIVE github_PageItems(_, _, _)
github_PageItems(type, resp, range) ==
    IF resp = <<>> THEN <<>>
    ELSE (IF github_OutsideRange(Head(resp).created_at, range) THEN <<>>
          ELSE <<github_NewItem(type, Head(resp))>>)
         \o github_PageItems(type, Tail(resp), range)

github_NewComment(c) ==
    [Author |-> c.user, Body |-> c.body, CreatedAt |-> c.created_at,
     UpdatedAt |-> c.updated_at]

\* the append loop of Client.FetchComments / Client.FetchReviewComments
RECURSIVE github_AppendComments(_, _)
github_AppendComments(comments, payload) ==
    IF payload = <<>> THEN comments
    ELSE github_AppendComments(Append(comments, github_NewComment(Head(payload))), Tail(payload))

github_ListError(type, cause) ==
    <<IF type = "Issue" THEN "Failed to retrieve Issues" ELSE "Failed to retrieve PRs", cause>>

github_RepoPathError(repository) == <<"Failed to extract repository path", repository>>

github_BodyError(type, cause) ==
    <<IF type = "Issue" THEN "Failed to retrieve Issue details"
      ELSE "Failed to retrieve PR details", cause>>

github_CommentsError(cause) == <<"Failed to retrieve comments", cause>>

github_ReviewError(cause) == <<"Failed to retrieve review comments", cause>>

\* one user kept or dropped by the inner loop of FilterIgnoredUserComments
github_ShouldKeep(comment, ignoreUsers) ==
    ~ \E k \in 1..Len(ignoreUsers) : comment.Author = ignoreUsers[k]

RECURSIVE github_FilterComments(_, _)
github_FilterComments(comments, ignoreUsers) ==
    IF comments = <<>> THEN <<>>
    ELSE (IF github_ShouldKeep(Head(comments), ignoreUsers) THEN <<Head(comments)>> ELSE <<>>)
         \o github_FilterComments(Tail(comments), ignoreUsers)

github_FilterIgnoredUserComments(its, ignoreUsers) ==
    [i \in 1..Len(its) |->
        [its[i] EXCEPT !.Comments = github_FilterComments(its[i].Comments, ignoreUsers)]]

github_NoWait == 0

\* the sleep of a retry loop after a failed attempt that had count failed
\* attempts before it: time.Sleep(2 * time.Second), whatever the count
github_RetryWait(count) == 2 * Second

\* the sleep of the list loop after the page resp: none after an empty page,
\* which leaves the loop body early, time.Sleep(1 * time.Second) otherwise
github_PageWait(resp) == IF Len(resp) = 0 THEN github_NoWait ELSE 1 * Second

\* fetchAllItems calls Client.FetchIssues / Client.FetchPRs for pass p
refactored_EnterPass(p) ==
    /\ pass' = p
    /\ query' = refactored_PassQuery(p, username', dateRange)
    /\ page' = 1
    /\ hasMore' = TRUE
    /\ retryCount' = 0
    /\ items' = <<>>
    /\ idx' = 0
    /\ stage' = "none"
    /\ passLog' = Append(passLog, refactored_Passes[p])
    /\ lastResp' = "none"
    /\ skipped' = FALSE
    /\ served' = 0

\* main: client.GetUsername() answers; fetchAllItems starts its first pass
refactored_GetUserOk ==
    /\ pc = "user"
    /\ username' \in UserChoices
    /\ Attempt(<<"user", 0, 0>>, <<"user">>, TRUE, github_NoWait)
    /\ refactored_EnterPass(1)
    /\ pc' = "fetch"
    /\ UNCHANGED <<input, dateRange, allItems, err, file, handed, fetched, passSizes>>

\* the retry loops: after a failed attempt, with retryCount failures before
\* it, the loop goes round again
github_RetryAgain(count) == count + 1 < github_maxRetries

\* the page ceiling of the list loop, tested after page++
github_CeilingReached(pg) == pg > github_PageCeiling

\* hasMore after the non-empty page resp has been processed and page has
\* become pg: only the ceiling ends the loop
github_KeepPaging(resp, range, pg) == ~github_CeilingReached(pg)

\* page++ at the end of a round of the list loop
github_NextPage(pg) == pg + 1

\* what fetchAllItems returns beside the error of a list fetch: nil
refactored_AbortResult(collected) == <<>>

\* the attempt fails; after the last attempt the error goes up through
\* fetchAllItems to main, which exits
github_ListQueryFail ==
    /\ pc = "fetch"
    /\ hasMore
    /\ Attempt(<<"list", pass, page>>, github_pageQuery(query, page), FALSE,
               github_RetryWait(retryCount))
    /\ \E e \in TransportErrors :
         IF github_RetryAgain(retryCount)
         THEN /\ retryCount' = retryCount + 1
              /\ UNCHANGED <<pc, err, items, allItems, page, hasMore, query, lastResp,
                             skipped, served>>
         ELSE /\ err' = github_ListError(refactored_PassType(pass), e)
              /\ pc' = "exit1"
              /\ items' = <<>>
              /\ allItems' = refactored_AbortResult(allItems)
              /\ page' = 0
              /\ hasMore' = FALSE
              /\ query' = <<>>
              /\ retryCount' = 0
              /\ lastResp' = "none"
              /\ skipped' = FALSE
              /\ served' = 0
    /\ UNCHANGED <<input, dateRange, username, pass, idx, stage, file, passLog, handed, fetched,
                   passSizes>>

\* the attempt succeeds with a page: empty page, or range filter, rate-limit
\* wait, next page and the page ceiling
github_ListQueryAnswered(resp) ==
    /\ pc = "fetch"
    /\ hasMore
    /\ handed + InsideCount(resp, dateRange) <= MaxItems
    /\ handed' = handed + InsideCount(resp, dateRange)
    /\ fetched' = fetched \o InsideKeys(pass, resp, dateRange)
    /\ IF Len(resp) = 0
       THEN /\ hasMore' = FALSE
            /\ lastResp' = "empty"
            /\ UNCHANGED <<items, page, skipped>>
       ELSE /\ items' = items \o github_PageItems(refactored_PassType(pass), resp, dateRange)
            /\ page' = github_NextPage(page)
            /\ hasMore' = github_KeepPaging(resp, dateRange, github_NextPage(page))
            /\ lastResp' = "items"
            /\ skipped' = (skipped \/ InsideCount(resp, dateRange) < Len(resp))
    /\ Attempt(<<"list", pass, page>>, github_pageQuery(query, page), TRUE, github_PageWait(resp))
    /\ retryCount' = 0
    /\ served' = served + 1
    /\ UNCHANGED <<pc, input, dateRange, username, pass, query, allItems, idx, stage,
                   err, file, passLog, passSizes>>

github_ListQueryOk == \E resp \in PageChoices(dateRange) : github_ListQueryAnswered(resp)

\* the loop is over: the fetch returns its items and the detail loop starts
github_FetchReturn ==
    /\ pc = "fetch"
    /\ ~hasMore
    /\ err' = Nil
    /\ pc' = "details"
    /\ idx' = 1
    /\ stage' = "tag"
    /\ page' = 0
    /\ query' = <<>>
    /\ lastResp' = "none"
    /\ skipped' = FALSE
    /\ served' = 0
    /\ UNCHANGED <<input, dateRange, username, pass, hasMore, retryCount, items,
                   allItems, file, net, passLog, handed, fetched, passSizes>>

github_repoPathOf(item) == github_getRepoPathFromURL(item.Repository)

github_issueURL(item) == <<"repos/", github_repoPathOf(item), "/issues/", item.Number>>

github_prURL(item) == <<"repos/", github_repoPathOf(item), "/pulls/", item.Number>>

github_issueCommentsURL(item) ==
    <<"repos/", github_repoPathOf(item), "/issues/", item.Number, "/comments">>

github_reviewCommentsURL(item) ==
    <<"repos/", github_repoPathOf(item), "/pulls/", item.Number, "/comments">>

github_detailURL(item) == IF item.Type = "Issue" THEN github_issueURL(item) ELSE github_prURL(item)

\* (mutant) the refactored fetchAllItems returning the error of a detail fetch
refactored_LoopAfter_Abort(e) == IF e = Nil THEN "details" ELSE "exit1"

\* where fetchAllItems goes when the detail fetch of an item returned e:
\* it prints a warning when e is an error, and stays in its loop
refactored_LoopAfter(e) == "details"

\* the detail fetch of items[idx] is over with result e; the loop goes on
refactored_NextItem(e) ==
    /\ err' = e
    /\ pc' = refactored_LoopAfter(e)
    /\ idx' = idx + 1
    /\ stage' = "tag"
    /\ retryCount' = 0

\* head of the loop body: the tag, then the repository path of the item
refactored_TagItem ==
    /\ pc = "details"
    /\ stage = "tag"
    /\ idx <= Len(items)
    /\ items' = [items EXCEPT ![idx].Involvement = refactored_PassTag(pass)]
    /\ IF github_repoPathOf(items[idx]) = <<>>
       THEN refactored_NextItem(github_RepoPathError(items[idx].Repository))
       ELSE /\ stage' = "body"
            /\ retryCount' = 0
            /\ UNCHANGED <<pc, err, idx>>
    /\ UNCHANGED <<input, dateRange, username, pass, query, page, hasMore, allItems,
                   file, net, passLog, lastResp, skipped, served, handed, fetched, passSizes>>

github_BodyQueryFail ==
    /\ pc = "details"
    /\ stage = "body"
    /\ Attempt(<<"body", pass, idx>>, github_detailURL(items[idx]), FALSE,
               github_RetryWait(retryCount))
    /\ \E e \in TransportErrors :
         IF github_RetryAgain(retryCount)
         THEN /\ retryCount' = retryCount + 1
              /\ UNCHANGED <<pc, err, idx, stage>>
         ELSE refactored_NextItem(github_BodyError(items[idx].Type, e))
    /\ UNCHANGED <<input, dateRange, username, pass, query, page, hasMore, items,
                   allItems, file, passLog, lastResp, skipped, served, handed, fetched, passSizes>>

\* item.Body = issueDetail.Body, right after the body call
github_SetBody(item, body) == [item EXCEPT !.Body = body]

github_BodyQueryOk ==
    /\ pc = "details"
    /\ stage = "body"
    /\ Attempt(<<"body", pass, idx>>, github_detailURL(items[idx]), TRUE, github_NoWait)
    /\ \E body \in BodyChoices :
         items' = [items EXCEPT ![idx] = github_SetBody(@, body)]
    /\ stage' = "comments"
    /\ retryCount' = 0
    /\ UNCHANGED <<pc, input, dateRange, username, pass, query, page, hasMore, allItems,
                   idx, err, file, passLog, lastResp, skipped, served, handed, fetched, passSizes>>

github_CommentsQueryFail ==
    /\ pc = "details"
    /\ stage = "comments"
    /\ Attempt(<<"comments", pass, idx>>, github_issueCommentsURL(items[idx]), FALSE,
               github_RetryWait(retryCount))
    /\ \E e \in TransportErrors :
         IF github_RetryAgain(retryCount)
         THEN /\ retryCount' = retryCount + 1
              /\ UNCHANGED <<pc, err, idx, stage>>
         ELSE refactored_NextItem(github_CommentsError(e))
    /\ UNCHANGED <<input, dateRange, username, pass, query, page, hasMore, items,
                   allItems, file, passLog, lastResp, skipped, served, handed, fetched, passSizes>>

github_CommentsQueryOk ==
    /\ pc = "details"
    /\ stage = "comments"
    /\ Attempt(<<"comments", pass, idx>>, github_issueCommentsURL(items[idx]), TRUE, github_NoWait)
    /\ \E payload \in GeneralChoices :
         items' = [items EXCEPT ![idx].Comments = github_AppendComments(@, payload)]
    /\ IF items[idx].Type = "Issue"
       THEN refactored_NextItem(Nil)
       ELSE /\ stage' = "review"
            /\ retryCount' = 0
            /\ UNCHANGED <<pc, err, idx>>
    /\ UNCHANGED <<input, dateRange, username, pass, query, page, hasMore, allItems,
                   file, passLog, lastResp, skipped, served, handed, fetched, passSizes>>

github_ReviewQueryFail ==
    /\ pc = "details"
    /\ stage = "review"
    /\ Attempt(<<"review", pass, idx>>, github_reviewCommentsURL(items[idx]), FALSE,
               github_RetryWait(retryCount))
    /\ \E e \in TransportErrors :
         IF github_RetryAgain(retryCount)
         THEN /\ retryCount' = retryCount + 1
              /\ UNCHANGED <<pc, err, idx, stage>>
         ELSE refactored_NextItem(github_ReviewError(e))
    /\ UNCHANGED <<input, dateRange, username, pass, query, page, hasMore, items,
                   allItems, file, passLog, lastResp, skipped, served, handed, fetched, passSizes>>

github_ReviewQueryOk ==
    /\ pc = "details"
    /\ stage = "review"
    /\ Attempt(<<"review", pass, idx>>, github_reviewCommentsURL(items[idx]), TRUE, github_NoWait)
    /\ \E payload \in ReviewChoices :
         items' = [items EXCEPT ![idx].Comments = github_AppendComments(@, payload)]
    /\ refactored_NextItem(Nil)
    /\ UNCHANGED <<input, dateRange, username, pass, query, page, hasMore, allItems,
                   file, passLog, lastResp, skipped, served, handed, fetched, passSizes>>

\* allItems = append(allItems, <items of the pass>...)
refactored_AppendItems(all, its) == all \o its

\* the loop of the pass is over: its items join allItems, and the next pass
\* starts or fetchAllItems returns to main
refactored_AppendPass ==
    /\ pc = "details"
    /\ stage = "tag"
    /\ idx > Len(items)
    /\ UNCHANGED <<input, dateRange, username, file, net, handed, fetched>>
    /\ allItems' = refactored_AppendItems(allItems, items)
    /\ passSizes' = Append(passSizes, Len(items))
    /\ IF pass < Len(refactored_Passes)
       THEN /\ refactored_EnterPass(pass + 1)
            /\ pc' = "fetch"
            /\ UNCHANGED err
       ELSE /\ pc' = "filter"
            /\ err' = Nil
            /\ items' = <<>>
            /\ idx' = 0
            /\ stage' = "none"
            /\ retryCount' = 0
            /\ UNCHANGED <<pass, query, page, hasMore, passLog, lastResp, skipped, served>>

refactored_FilterStep ==
    /\ pc = "filter"
    /\ allItems' = IF Len(input.ignore) > 0
                   THEN github_FilterIgnoredUserComments(allItems, input.ignore)
                   ELSE allItems
    /\ pc' = "write"
    /\ UNCHANGED <<input, dateRange, username, pass, query, page, hasMore, retryCount,
                   items, idx, stage, err, file, net, passLog, lastResp, skipped, served,
                   handed, fetched, passSizes>>

\* the passes that have been handed a record inside the range
BusyPasses == {fetched[i][1] : i \in 1..Len(fetched)}

\* the runs looked at with both pipelines: the API has records inside the
\* range for one of the six passes, any one of them; pages of records
\* outside the range, empty pages and failures come in every pass
MaxBusyPasses == 1

\* both pipelines on the same state: at every point either of them may
\* take the next step
NextBoth ==
    \/ ValidateInput
    \/ GetUserFail
    \/ GetUserOk
    \/ ListQueryFail
    \/ ListQueryOk /\ Cardinality(BusyPasses') <= MaxBusyPasses
    \/ FetchReturn
    \/ TagItem
    \/ BodyQueryFail
    \/ BodyQueryOk
    \/ CommentsQueryFail
    \/ CommentsQueryOk
    \/ ReviewQueryFail
    \/ ReviewQueryOk
    \/ AppendPass
    \/ FilterStep
    \/ WriteCreateFail
    \/ WriteResults
    \/ refactored_GetUserOk
    \/ github_ListQueryFail
    \/ github_ListQueryOk /\ Cardinality(BusyPasses') <= MaxBusyPasses
    \/ github_FetchReturn
    \/ refactored_TagItem
    \/ github_BodyQueryFail
    \/ github_BodyQueryOk
    \/ github_CommentsQueryFail
    \/ github_CommentsQueryOk
    \/ github_ReviewQueryFail
    \/ github_ReviewQueryOk
    \/ refactored_AppendPass
    \/ refactored_FilterStep

SpecBoth == Init /\ [][NextBoth]_vars

(***************************************************************************)
(* parseDateRange on its own: any two date strings of the command line,    *)
(* well formed or not, in either order                                     *)
(***************************************************************************)
DateChoices ==
    {<<1, 1>>, <<2, 28>>, <<2, 29>>, <<2, 30>>, <<3, 1>>, <<3, 2>>, <<4, 31>>,
     <<6, 0>>, <<6, 15>>, <<0, 5>>, <<12, 31>>, <<13, 1>>}

InitDates ==
    /\ input \in {[format |-> "md", ignore |-> <<>>, from |-> a, to |-> b] :
                    a \in DateChoices, b \in DateChoices}
    /\ pc = "dates"
    /\ dateRange = ZeroRange
    /\ username = ""
    /\ pass = 0
    /\ query = <<>>
    /\ page = 0
    /\ hasMore = FALSE
    /\ retryCount = 0
    /\ items = <<>>
    /\ allItems = <<>>
    /\ idx = 0
    /\ stage = "none"
    /\ err = Nil
    /\ file = NoFile
    /\ net = NoCall
    /\ passLog = <<>>
    /\ lastResp = "none"
    /\ skipped = FALSE
    /\ served = 0
    /\ handed = 0
    /\ fetched = <<>>
    /\ passSizes = <<>>

\* dateRange, err := parseDateRange(*fromDate, *toDate): both results kept
ParseDates ==
    /\ pc = "dates"
    /\ LET parsed == parseDateRange(input.from, input.to)
       IN  /\ dateRange' = parsed.range
           /\ err' = IF parsed.err = "" THEN Nil ELSE <<parsed.err>>
    /\ pc' = "parsed"
    /\ UNCHANGED <<input, username, pass, query, page, hasMore, retryCount, items,
                   allItems, idx, stage, file, net, passLog, lastResp, skipped, served,
                   handed, fetched, passSizes>>

NextDates == ParseDates

SpecDates == InitDates /\ [][NextDates]_vars

(***************************************************************************)
(* Properties                                                              *)
(***************************************************************************)
InRange(item) ==
    item.CreatedAt >= dateRange.StartDate /\ item.CreatedAt <= dateRange.EndDate

\* the call the latest attempt belonged to is a list call that has now
\* failed three times in a row
ListFailed == net.call[1] = "list" /\ net.fails = 3

\* C1: every Item a list fetch holds or has returned, and so every Item of
\* the aggregate, was created inside [start, end], end being the last second
\* of the end day, whatever records the API returned.
C1_OnlyItemsInRange ==
    /\ pc \notin {"main", "exit1"} =>
         /\ dateRange.StartDate = TimeParse(input.from).t
         /\ dateRange.EndDate = TimeParse(input.to).t + 86400 - 1
    /\ \A i \in 1..Len(items) : InRange(items[i])
    /\ \A i \in 1..Len(allItems) : InRange(allItems[i])

\* a list fetch that is about to return an item after skipping a record
\* outside the range
C1_Witness ==
    /\ pc = "fetch"
    /\ ~hasMore
    /\ skipped
    /\ Len(items) > 0

\* C2: a list fetch whose every page came back non-empty asks for pages
\* 1 to 10, one after the other, stops after the tenth and returns no error.
C2_StopsAtCeiling ==
    /\ pc = "fetch" /\ hasMore => page = served + 1 /\ page <= 10
    /\ pc = "fetch" /\ ~hasMore /\ lastResp = "items" => served = 10
    /\ pc = "fetch" /\ lastResp # "empty" /\ served < 10 => hasMore
    /\ pc = "details" /\ stage = "tag" /\ idx = 1 => err = Nil

\* the loop has ended on the tenth non-empty page
C2_Witness ==
    /\ pc = "fetch"
    /\ ~hasMore
    /\ lastResp = "items"
    /\ served = 10
    /\ net.call = <<"list", pass, 0>>

\* C3: once a list request has failed three times the run is over: main has
\* left with the error, fetchAllItems has returned no items, no step (so no
\* request) follows, and no output file exists.
C3_ListFailureAborts ==
    ListFailed =>
        /\ pc = "exit1"
        /\ err = ListError(PassType(net.call[2]), "timeout")
        /\ allItems = <<>>
        /\ items = <<>>
        /\ ~file.exists
        /\ ~ENABLED Next

\* a list request of a later pass failed after the API had handed out items
C3_Witness ==
    /\ ListFailed
    /\ net.call[2] >= 2
    /\ handed > 0
    /\ allItems = <<>>

\* C4 as stated: the error main receives after a list call failed three
\* times tells which of the six passes failed, so it differs from the error
\* any other pass would surface for the same transport failure.
C4_ErrorNamesPass ==
    ListFailed =>
        \A p \in 1..6 : p # net.call[2] => err # ListError(PassType(p), err[2])

\* C4, amended: the error main receives after a list call failed three
\* times tells the kind of the pass that failed, Issues for the first three
\* passes and PRs for the last three, and wraps the transport error; it does
\* not tell the category.
C4_ErrorNamesKind ==
    ListFailed =>
        /\ pc = "exit1"
        /\ Len(err) = 2
        /\ err[1] = (IF net.call[2] \in 1..3 THEN "Failed to retrieve Issues"
                     ELSE "Failed to retrieve PRs")
        /\ err[2] \in TransportErrors

\* the list call of the assigned-PRs pass has failed three times
C4_Witness ==
    /\ ListFailed
    /\ net.call[2] = 5
    /\ pc = "exit1"
    /\ err[1] = "Failed to retrieve PRs"

\* the messages of the errors a detail fetch returns
DetailMessages ==
    {"Failed to extract repository path", "Failed to retrieve Issue details",
     "Failed to retrieve PR details", "Failed to retrieve comments",
     "Failed to retrieve review comments"}

\* fetchAllItems holds the error of a detail fetch
DetailFailed == err # Nil /\ err[1] \in DetailMessages

\* the category of each pass, in order
ExpectedCategory ==
    <<"created", "assigned", "commented", "created", "assigned", "reviewed">>

\* comments a successful general-comments call can have attached
AttachedGeneral == {AppendComments(<<>>, payload) : payload \in GeneralChoices}

\* C5: the error of a detail fetch never ends the run.  The item it was
\* about stays in the collection of its pass with its tag and with the body
\* and comments attached before the failure, the loop goes on to the next
\* item of the pass, and a run that reaches the report has run all six
\* passes and visited every item.
C5_DetailFailureKeepsGoing ==
    /\ DetailFailed => pc \in {"details", "fetch"} /\ ENABLED Next
    /\ pc = "exit1" => err[1] \notin DetailMessages
    /\ pc = "details" /\ stage = "tag" /\ DetailFailed =>
         /\ idx >= 2
         /\ idx - 1 <= Len(items)
         /\ items[idx - 1].Involvement = ExpectedCategory[pass]
         /\ err[1] \in {"Failed to extract repository path",
                        "Failed to retrieve Issue details",
                        "Failed to retrieve PR details"} =>
               items[idx - 1].Body = <<>> /\ items[idx - 1].Comments = <<>>
         /\ err[1] = "Failed to retrieve comments" =>
               items[idx - 1].Body \in BodyChoices /\ items[idx - 1].Comments = <<>>
         /\ err[1] = "Failed to retrieve review comments" =>
               /\ items[idx - 1].Body \in BodyChoices
               /\ items[idx - 1].Comments \in AttachedGeneral
    /\ pc \in {"filter", "write", "done"} =>
         /\ Len(passLog) = 6
         /\ \A i \in 1..Len(allItems) : allItems[i].Involvement # ""

\* a finished run in which the detail fetch of an item failed before the
\* body, the next item of the same pass got its body, and later passes ran
C5_Witness ==
    /\ pc = "done"
    /\ Len(passLog) = 6
    /\ \E k \in 1..5 : passSizes[k] = 2
    /\ Len(allItems) = 2
    /\ allItems[1].Body = <<>>
    /\ allItems[1].Involvement # ""
    /\ allItems[2].Body # <<>>

\* C6: with a format token other than "md" and "json" main stops at its
\* first test: no request has been made, no pass started, no file created,
\* and the run ends with the error that names the token.
C6_InvalidFormatRejectedFirst ==
    input.format \notin {"md", "json"} =>
        /\ pc \in {"main", "exit1"}
        /\ net = NoCall
        /\ passLog = <<>>
        /\ ~file.exists
        /\ pc = "exit1" => err = <<"Invalid output format", input.format>>

\* the run with the token "xml" has ended
C6_Witness ==
    /\ pc = "exit1"
    /\ input.format = "xml"
    /\ err[1] = "Invalid output format"

\* C7 as stated: writeResultsToFile called with a format token other than
\* "json" and "md" returns an error and leaves the file at the output path
\* as it was, absent if it was absent.
C7_UnsupportedFormatLeavesNoFile ==
    [][pc = "write" /\ input.format \notin {"md", "json"} =>
          err' # Nil /\ file' = file]_vars

\* the calls a detail fetch makes
DetailKinds == {"body", "comments", "review"}

\* the message a call of each kind fails with
FailureMessages(kind) ==
    CASE kind = "list" -> {"Failed to retrieve Issues", "Failed to retrieve PRs"}
      [] kind = "body" -> {"Failed to retrieve Issue details", "Failed to retrieve PR details"}
      [] kind = "comments" -> {"Failed to retrieve comments"}
      [] kind = "review" -> {"Failed to retrieve review comments"}
      [] OTHER -> {"Failed to retrieve user information"}

\* the program is inside the retry loop of the call the latest attempt
\* belonged to
AtCall ==
    IF net.call[1] = "list"
    THEN pc = "fetch" /\ hasMore /\ pass = net.call[2] /\ page = net.call[3]
    ELSE pc = "details" /\ stage = net.call[1] /\ pass = net.call[2] /\ idx = net.call[3]

\* C8: a list page, a body, the general comments and the review comments
\* are each attempted at most 3 times.  After one or two failures in a row
\* the program is still in the retry loop of that call, with that many
\* attempts used; after an answer it has left the loop, and the next call
\* starts with no attempt used; after the third failure in a row the call
\* has failed and is not attempted again; and a call is only reported as
\* failed after three failures in a row of that very call.
C8_ThreeAttemptsPerCall ==
    /\ net.fails \in 0..3
    /\ net.call[1] = "user" => net.fails <= 1
    /\ retryCount \in 0..2
    /\ net.call[1] \in DetailKinds \cup {"list"} =>
         /\ net.fails \in {1, 2} => AtCall /\ retryCount = net.fails
         /\ net.fails \in {0, 3} => retryCount = 0
         /\ net.fails = 3 =>
              /\ ~AtCall
              /\ net.call[1] = "list" =>
                   pc = "exit1" /\ err[1] \in FailureMessages("list")
              /\ (/\ net.call[1] \in DetailKinds
                  /\ pc = "details" /\ stage = "tag"
                  /\ pass = net.call[2] /\ idx = net.call[3] + 1) =>
                   err # Nil /\ err[1] \in FailureMessages(net.call[1])
         /\ net.fails = 0 /\ net.call[1] \in DetailKinds /\ pc = "details" =>
              stage # net.call[1]
         /\ net.fails = 0 /\ net.call[1] = "list" /\ pc = "fetch" /\ hasMore =>
              page = served + 1
    /\ pc = "exit1" /\ err[1] \in FailureMessages("list") =>
         net.call[1] = "list" /\ net.fails = 3
    /\ \A kind \in DetailKinds :
         pc = "details" /\ stage = "tag" /\ err # Nil /\ err[1] \in FailureMessages(kind) =>
            net.call = <<kind, pass, idx - 1>> /\ net.fails = 3

\* the body call of the first item of a pass failed three times, and the
\* body call of the second item is in its loop after two failures of its own
C8_Witness ==
    /\ pc = "details"
    /\ idx = 2
    /\ Len(items) = 2
    /\ items[1].Body = <<>>
    /\ repoPathOf(items[1]) # <<>>
    /\ net.call = <<"body", pass, 2>>
    /\ net.fails = 2
    /\ retryCount = 2

\* the six passes, in order
ExpectedPasses ==
    << <<"Issue", "created">>, <<"Issue", "assigned">>, <<"Issue", "commented">>,
       <<"PR", "created">>, <<"PR", "assigned">>, <<"PR", "reviewed">> >>

\* head of the search query of each pass: the kind and the qualifier
ExpectedQueryHead ==
    << <<"search/issues?q=is:issue+", "author">>,
       <<"search/issues?q=is:issue+", "assignee">>,
       <<"search/issues?q=is:issue+", "commenter">>,
       <<"search/issues?q=is:pr+", "author">>,
       <<"search/issues?q=is:pr+", "assignee">>,
       <<"search/issues?q=is:pr+", "reviewed-by">> >>

\* C9: the list fetches started so far are the first ones of the six passes
\* in their order, each searching its own kind and category; while pass k
\* runs, the k-1 passes before it have finished their list fetch and their
\* detail loop and every item they collected has been visited; a run that
\* leaves fetchAllItems without an error has started exactly the six.
C9_SixPassesInOrder ==
    /\ Len(passLog) <= 6
    /\ passLog = SubSeq(ExpectedPasses, 1, Len(passLog))
    /\ pass = Len(passLog)
    /\ pc \in {"fetch", "details"} =>
         /\ pass \in 1..6
         /\ Len(passSizes) = pass - 1
         /\ \A i \in 1..Len(allItems) : allItems[i].Involvement # ""
    /\ pc = "fetch" /\ hasMore =>
         <<query[1], query[2]>> = ExpectedQueryHead[pass]
    /\ net.call[1] = "list" /\ net.fails > 0 =>
         /\ net.call[2] = Len(passLog)
         /\ <<net.endpoint[1], net.endpoint[2]>> = ExpectedQueryHead[net.call[2]]
    /\ net.call[1] \in DetailKinds \cup {"list"} => net.call[2] \in 1..Len(passLog)
    /\ pc \in {"filter", "write", "done"} =>
         passLog = ExpectedPasses /\ Len(passSizes) = 6

\* a finished run that collected an Issue and a pull request
C9_Witness ==
    /\ pc = "done"
    /\ passLog = ExpectedPasses
    /\ Len(allItems) = 2
    /\ allItems[1].Type = "Issue"
    /\ allItems[2].Type = "PR"

\* items of the first k finished passes
RECURSIVE SumSizes(_)
SumSizes(k) == IF k = 0 THEN 0 ELSE SumSizes(k - 1) + passSizes[k]

\* the pass whose detail loop appended allItems[i]
ProducerOf(i) ==
    CHOOSE k \in 1..Len(passSizes) : SumSizes(k - 1) < i /\ i <= SumSizes(k)

\* C10: every Item of allItems carries the category of the pass that
\* appended it, one of created, assigned, commented and reviewed, and so
\* does every item the running detail loop has visited, whether or not its
\* detail fetch succeeded.
C10_TagIsCategoryOfPass ==
    /\ pc # "exit1" => Len(allItems) = SumSizes(Len(passSizes))
    /\ \A i \in 1..Len(allItems) :
         /\ allItems[i].Involvement \in {"created", "assigned", "commented", "reviewed"}
         /\ allItems[i].Involvement = ExpectedCategory[ProducerOf(i)]
    /\ pc = "details" =>
         \A j \in 1..Len(items) :
            items[j].Involvement = (IF j < idx \/ (j = idx /\ stage # "tag")
                                    THEN ExpectedCategory[pass] ELSE "")

\* fetchAllItems has returned an Item of the third pass whose detail fetch
\* failed and an Item of the sixth pass
C10_Witness ==
    /\ pc = "filter"
    /\ Len(allItems) = 2
    /\ allItems[1].Involvement = "commented"
    /\ allItems[1].Body = <<>>
    /\ allItems[2].Involvement = "reviewed"

\* <<pass, number, created_at>> of the Items of the aggregate, in order
AggregateKeys ==
    [i \in 1..Len(allItems) |->
        <<ProducerOf(i), allItems[i].Number, allItems[i].CreatedAt>>]

\* the same of the Items the running pass holds
PassKeys == [j \in 1..Len(items) |-> <<pass, items[j].Number, items[j].CreatedAt>>]

\* C11: the aggregate followed by the items of the running pass is the
\* list of the records inside the range in the order the API handed them
\* out, pass after pass, page after page, record after record; when
\* fetchAllItems has returned, the aggregate alone is that list and its
\* length is the sum of the lengths of the six passes.  A failed detail
\* fetch changes neither.
C11_AggregateIsConcatenation ==
    /\ pc \in {"fetch", "details"} => AggregateKeys \o PassKeys = fetched
    /\ pc \in {"filter", "write", "done"} =>
         /\ AggregateKeys = fetched
         /\ Len(passSizes) = 6
         /\ Len(allItems) = passSizes[1] + passSizes[2] + passSizes[3]
                            + passSizes[4] + passSizes[5] + passSizes[6]

\* fetchAllItems has returned an Item of the second pass, whose detail fetch
\* failed, followed by an Item of the fifth pass
C11_Witness ==
    /\ pc = "filter"
    /\ Len(allItems) = 2
    /\ passSizes[2] = 1
    /\ passSizes[5] = 1
    /\ allItems[1].Body = <<>>
    /\ allItems[1].Type = "Issue"
    /\ allItems[2].Type = "PR"
    /\ fetched[1][1] = 2
    /\ fetched[2][1] = 5

\* the names of an ignore list
IgnoreSet == {input.ignore[k] : k \in 1..Len(input.ignore)}

\* the comments of a list whose author is none of the names to ignore, in
\* the order of the list
KeptComments(comments) ==
    LET NotIgnored(c) == c.Author \notin IgnoreSet
    IN  SelectSeq(comments, NotIgnored)

\* a comment list the filter has taken a comment out of: the places left
\* are not 1, 2, ... any more
HasGap(comments) == \E i \in 1..Len(comments) : comments[i].CreatedAt # i

\* C12: the second of two calls of filterIgnoredUserComments with the same
\* ignore list changes nothing in the collection the first call left.
C12_FilterIdempotent ==
    [][pc = "filtered" => allItems' = allItems]_vars

\* the filter has run twice on a collection it took comments out of
C12_Witness ==
    /\ pc = "refiltered"
    /\ Len(input.ignore) > 0
    /\ \E i \in 1..Len(allItems) :
         HasGap(allItems[i].Comments) /\ Len(allItems[i].Comments) > 0

\* C13: a call of filterIgnoredUserComments leaves the collection as long
\* as it was and every item as it was but for its comments, which become
\* the comments whose author is, letter for letter, none of the names of
\* the ignore list, in their old order.
C13_FilterKeepsExactlyOthers ==
    [][pc = "filter" =>
         /\ Len(allItems') = Len(allItems)
         /\ \A i \in 1..Len(allItems) :
              allItems'[i] =
                 [allItems[i] EXCEPT !.Comments = KeptComments(allItems[i].Comments)]]_vars

\* a call with the ignore list <<"bob">> has taken the comment of bob and
\* left the comment of Bob that came after it
C13_Witness ==
    /\ pc = "filtered"
    /\ input.ignore = <<"bob">>
    /\ \E i \in 1..Len(allItems) :
         /\ Len(allItems[i].Comments) = 1
         /\ allItems[i].Comments[1].Author = "Bob"
         /\ allItems[i].Comments[1].CreatedAt = 2

\* the narrative report has been written
ReportWritten == pc = "done" /\ input.format = "md" /\ file.exists

\* the lines at which the report starts an item, and the line that ends the
\* item started at line k
ItemStarts == {k \in 1..Len(file.data) : file.data[k][1] = "- ["}

BlockEnd(k) ==
    CHOOSE j \in k..Len(file.data) :
        file.data[j] = <<"">> /\ \A m \in k..(j - 1) : file.data[m] # <<"">>

\* the item of the collection the report shows at line k
ItemAt(k) ==
    CHOOSE item \in {allItems[i] : i \in 1..Len(allItems)} :
        item.Type = file.data[k][2] /\ item.Number = file.data[k][4]

\* the lines of the item started at line k whose first piece is the given one
BlockLines(k, first) ==
    LET StartsSo(line) == line[1] = first
    IN  SelectSeq(SubSeq(file.data, k, BlockEnd(k)), StartsSo)

\* a byte that continues a character of several bytes
IsContinuation(b) == b \in {"81", "82"}

\* the characters of a text
Chars(text) == Cardinality({i \in 1..Len(text) : ~IsContinuation(text[i])})

\* the first n characters of a text of more than n characters
FirstChars(text, n) ==
    LET leads == {i \in 1..Len(text) : ~IsContinuation(text[i])}
        next == CHOOSE i \in leads : Cardinality({j \in leads : j < i}) = n
    IN  SubSeq(text, 1, next - 1)

\* a text cut the way C14 says: at a cap counted in characters
CutAtChars(text, cap) ==
    IF Chars(text) > cap THEN FirstChars(text, cap) \o <<".", ".", ".">> ELSE text

\* C14 as stated: in the narrative report a body of more than 300
\* characters is shown as its first 300 characters followed by "...", a
\* comment of more than 200 characters as its first 200 characters followed
\* by "...", and a shorter text as it is; the newlines of the text shown are
\* then indented.
C14_CutAtCapCharacters ==
    ReportWritten =>
        \A k \in ItemStarts :
            LET item == ItemAt(k)
                bodies == BlockLines(k, "    ")
                comments == BlockLines(k, "      ")
            IN  /\ item.Body # <<>> =>
                     /\ Len(bodies) = 1
                     /\ bodies[1][2] = ReplaceNewlines(CutAtChars(item.Body, 300), Indent4)
                /\ \A i \in 1..Len(comments) :
                     comments[i][2] =
                        ReplaceNewlines(CutAtChars(item.Comments[i].Body, 200), Indent6)

\* C15: in the narrative report an item without comments has no comment
\* block; an item with n > 0 comments has one block whose header gives n,
\* the notice "Only the first 5 shown" exactly when n > 5, and the first
\* min(n, 5) comments in their stored order, each with its author and date.
C15_FirstFiveComments ==
    ReportWritten =>
        \A k \in ItemStarts :
            LET item == ItemAt(k)
                n == Len(item.Comments)
                headers == BlockLines(k, "  - Comments (")
                notices == BlockLines(k, "    (Only the first ")
                shown == BlockLines(k, "    - ")
                texts == BlockLines(k, "      ")
            IN  /\ Len(headers) = (IF n = 0 THEN 0 ELSE 1)
                /\ n > 0 => headers[1] = <<"  - Comments (", n, "):">>
                /\ Len(notices) = (IF n > 5 THEN 1 ELSE 0)
                /\ n > 5 => notices[1] = <<"    (Only the first ", 5, " shown)">>
                /\ Len(shown) = (IF n < 5 THEN n ELSE 5)
                /\ Len(texts) = Len(shown)
                /\ \A i \in 1..Len(shown) :
                     /\ shown[i][2] = item.Comments[i].Author
                     /\ shown[i][4] = FormatDate(item.Comments[i].CreatedAt)

\* a report that shows an item with six comments, one with five and one
\* with none
C15_Witness ==
    /\ ReportWritten
    /\ \E k \in ItemStarts : Len(ItemAt(k).Comments) = 6 /\ Len(BlockLines(k, "    - ")) = 5
    /\ \E i \in 1..Len(allItems) : Len(allItems[i].Comments) \in {0, 5}

\* items of the collection that pass a test
NumberOf(Test(_)) == Cardinality({i \in 1..Len(allItems) : Test(allItems[i])})

\* C16: the summary of the narrative report gives the number of items, the
\* number of pull requests and of Issues, and the number of items of each
\* of the four involvements, 0 where there is none.
C16_SummaryCounts ==
    ReportWritten =>
        LET Is(kind) == NumberOf(LAMBDA item : item.Type = kind)
            In(category) == NumberOf(LAMBDA item : item.Involvement = category)
        IN  /\ file.data[4] = <<"## Summary">>
            /\ file.data[5] = <<"- Total items: ", Len(allItems)>>
            /\ file.data[6] = <<"- Number of PRs: ", Is("PR")>>
            /\ file.data[7] = <<"- Number of Issues: ", Is("Issue")>>
            /\ file.data[9] = <<"- Created items: ", In("created")>>
            /\ file.data[10] = <<"- Assigned items: ", In("assigned")>>
            /\ file.data[11] = <<"- Commented items: ", In("commented")>>
            /\ file.data[12] = <<"- Reviewed items: ", In("reviewed")>>

\* the report of a pull request somebody reviewed and an Issue somebody
\* created: two counts of involvement are 1 and two are 0
C16_Witness ==
    /\ ReportWritten
    /\ Len(allItems) = 2
    /\ allItems[1].Type = "PR" /\ allItems[1].Involvement = "reviewed"
    /\ allItems[2].Type = "Issue" /\ allItems[2].Involvement = "created"
    /\ file.data[10][2] = 0
    /\ file.data[12][2] = 1

\* the titles of the four subsections, in their order, each with its
\* involvement
SectionTitles ==
    << <<"### Created Items", "created">>, <<"### Assigned Items", "assigned">>,
       <<"### Commented Items", "commented">>, <<"### Reviewed Items", "reviewed">> >>

\* the lines of the report that are one of the four titles, in order
TitlePlaces ==
    LET titles == {SectionTitles[t][1] : t \in 1..4}
        places == {k \in 1..Len(file.data) : file.data[k][1] \in titles}
        Place(n) == CHOOSE k \in places : Cardinality({j \in places : j < k}) = n - 1
    IN  [n \in 1..Cardinality(places) |-> Place(n)]

\* <<kind, number>> of the items the report shows from line a to line b
ShownFrom(a, b) ==
    LET IsStart(line) == line[1] = "- ["
        starts == SelectSeq(SubSeq(file.data, a, b), IsStart)
    IN  [i \in 1..Len(starts) |-> <<starts[i][2], starts[i][4]>>]

\* <<kind, number>> of the items of the collection with an involvement
ItemsOf(category) ==
    LET IsIn(item) == item.Involvement = category
        chosen == SelectSeq(allItems, IsIn)
    IN  [i \in 1..Len(chosen) |-> <<chosen[i].Type, chosen[i].Number>>]

\* C17: the detail section of the narrative report has the subsections
\* Created, Assigned, Commented and Reviewed in this order, a subsection
\* exactly when an item has its involvement, and in each subsection the
\* items of that involvement in the order of the collection, and no other.
C17_SectionsInOrder ==
    ReportWritten =>
        LET present == SelectSeq(SectionTitles, LAMBDA t : ItemsOf(t[2]) # <<>>)
            places == TitlePlaces
        IN  /\ Len(places) = Len(present)
            /\ \A n \in 1..Len(places) :
                 /\ file.data[places[n]] = <<present[n][1]>>
                 /\ ShownFrom(places[n],
                              IF n < Len(places) THEN places[n + 1] ELSE Len(file.data))
                      = ItemsOf(present[n][2])
            /\ Len(places) = 0 => ItemStarts = {}

\* a report with the subsections Created and Reviewed only, from a
\* collection that has the reviewed item first
C17_Witness ==
    /\ ReportWritten
    /\ Len(allItems) = 2
    /\ allItems[1].Involvement = "reviewed"
    /\ allItems[2].Involvement = "created"
    /\ Len(TitlePlaces) = 2
    /\ file.data[TitlePlaces[1]] = <<"### Created Items">>

\* the comment lists a general-comments call and a review-comments call
\* can bring, as Comments of an Item
GeneralLists ==
    {<<>>,
     << [Author |-> "alice", Body |-> <<"g", "1">>, CreatedAt |-> 1, UpdatedAt |-> 1],
        [Author |-> "bob", Body |-> <<"g", "2">>, CreatedAt |-> 2, UpdatedAt |-> 2] >>}

ReviewLists ==
    {<<>>, << [Author |-> "bob", Body |-> <<"r", "1">>, CreatedAt |-> 3, UpdatedAt |-> 3] >>}

\* C18: an answered general-comments call puts its comments, in the order
\* received, into the still empty comment list of the item; an answered
\* review-comments call is a call for a pull request and puts its comments,
\* in the order received, behind the comments the item has; no
\* review-comments call is made for an Issue.
C18_ReviewAfterGeneral ==
    [][/\ (pc = "details" /\ stage = "comments" /\ net'.fails = 0) =>
             /\ items[idx].Comments = <<>>
             /\ items'[idx].Comments \in GeneralLists
       /\ (pc = "details" /\ stage = "review" /\ net'.fails = 0) =>
             /\ items[idx].Type = "PR"
             /\ \E r \in ReviewLists : items'[idx].Comments = items[idx].Comments \o r
       /\ (pc' = "details" /\ stage' = "review") => items'[idx'].Type = "PR"
       /\ net'.call[1] = "review" => net'.call[2] \in 4..6]_vars

\* fetchAllItems has returned an Issue with its two general comments and a
\* pull request with the two general comments followed by the review comment
C18_Witness ==
    /\ pc = "filter"
    /\ Len(allItems) = 2
    /\ allItems[1].Type = "Issue"
    /\ Len(allItems[1].Comments) = 2
    /\ allItems[2].Type = "PR"
    /\ Len(allItems[2].Comments) = 3
    /\ allItems[2].Comments[1].Body = <<"g", "1">>
    /\ allItems[2].Comments[2].Body = <<"g", "2">>
    /\ allItems[2].Comments[3].Body = <<"r", "1">>

\* the qualifier C19 gives for an involvement, whatever the kind
ClaimedQualifier(involvement) ==
    CASE involvement = "created" -> "author"
      [] involvement = "assigned" -> "assignee"
      [] involvement = "commented" -> "commenter"
      [] involvement = "reviewed" -> "reviewed-by"
      [] OTHER -> "involves"

\* the query has the kind filter, one qualifier with the user, the lower
\* bound on the creation date and the page size, and nothing else
QueryShape(qualifier) ==
    /\ Len(query) = 7
    /\ query[1] = (IF passLog[1][1] = "Issue" THEN "search/issues?q=is:issue+"
                   ELSE "search/issues?q=is:pr+")
    /\ query[2] = qualifier
    /\ query[3] = ":"
    /\ query[4] = username
    /\ query[5] = "+created:>="
    /\ query[6] = input.from
    /\ query[7] = "&per_page=100"

\* C19 as stated: for an Issue as for a pull request the query has the
\* qualifier author for created, assignee for assigned, commenter for
\* commented, reviewed-by for reviewed and involves for any other value, and
\* it has no upper bound on the date.
C19_SameQualifierBothKinds ==
    pc = "built" => QueryShape(ClaimedQualifier(passLog[1][2]))

\* C19, amended: for a pull request the qualifier is author for created,
\* assignee for assigned, commenter for commented, reviewed-by for reviewed
\* and involves for any other value; for an Issue it is the same but for
\* reviewed, which gives involves like any other value; the query has no
\* upper bound on the date.
C19_QualifierByKind ==
    pc = "built" =>
        QueryShape(IF passLog[1] = <<"Issue", "reviewed">> THEN "involves"
                   ELSE ClaimedQualifier(passLog[1][2]))

\* the query of fetchIssues for the involvement "reviewed"
C19_Witness ==
    /\ pc = "built"
    /\ passLog[1] = <<"Issue", "reviewed">>
    /\ query[2] = "involves"

\* C20: a record the API hands out in several passes gives one Item per
\* pass in the aggregate, and the Items stay apart: a step of the running
\* pass, be it a tag, a body or comments, leaves every Item of the aggregate
\* and every other item of the pass as it is; the filter changes the
\* comments of each Item by the comments of that Item alone and nothing
\* else; and the aggregate fetchAllItems returns has one Item for every
\* record handed out, none merged with another or left out.
C20_CopiesStayApart ==
    [][/\ (pc \in {"fetch", "details"} /\ pc' # "exit1") =>
             SubSeq(allItems', 1, Len(allItems)) = allItems
       /\ (pc = "details" /\ pc' = "details" /\ pass' = pass) =>
             /\ Len(items') = Len(items)
             /\ \A j \in 1..Len(items) : j # idx => items'[j] = items[j]
       /\ pc = "filter" =>
             /\ Len(allItems') = Len(allItems)
             /\ \A i \in 1..Len(allItems) :
                  allItems'[i] =
                     [allItems[i] EXCEPT !.Comments = KeptComments(allItems[i].Comments)]
       /\ pc' = "filter" => (AggregateKeys = fetched)']_vars

\* the report is about to be written with two Items of the same record, one
\* of an Issue pass and one of a pull-request pass, of which only the second
\* has a body and comments
C20_Witness ==
    /\ pc = "write"
    /\ Len(allItems) = 2
    /\ allItems[1].Number = allItems[2].Number
    /\ allItems[1].Type = "Issue"
    /\ allItems[2].Type = "PR"
    /\ allItems[1].Involvement # allItems[2].Involvement
    /\ allItems[1].Body = <<>>
    /\ allItems[1].Comments = <<>>
    /\ allItems[2].Body # <<>>
    /\ allItems[2].Comments # <<>>

\* the structured report has been written
StructuredWritten == pc = "done" /\ input.format = "json" /\ file.exists

\* the backslashes in a row that end at place i of a text
RECURSIVE BackslashRun(_, _)
BackslashRun(text, i) ==
    IF i = 0 THEN 0
    ELSE IF text[i] # "\\" THEN 0
    ELSE 1 + BackslashRun(text, i - 1)

\* the byte an escape stands for, given the byte after its backslash
Unescaped(b) == IF b = "n" THEN "\n" ELSE b

\* json.Unmarshal on the inside of a string: every backslash that opens an
\* escape goes and the byte after it gives the byte meant.  The text is
\* taken by halves, cut where no escape is open.
RECURSIVE DecodeString(_)
DecodeString(text) ==
    IF Len(text) <= 1 THEN text
    ELSE IF Len(text) = 2
         THEN (IF text[1] = "\\" THEN <<Unescaped(text[2])>> ELSE text)
    ELSE LET half == Len(text) \div 2
             cut == IF BackslashRun(text, half) % 2 = 1 THEN half + 1 ELSE half
         IN  DecodeString(SubSeq(text, 1, cut))
             \o DecodeString(SubSeq(text, cut + 1, Len(text)))

RECURSIVE FromDigits(_)
FromDigits(digits) ==
    IF digits = <<>> THEN 0
    ELSE 10 * FromDigits(SubSeq(digits, 1, Len(digits) - 1)) + digits[Len(digits)]

\* time.Time.UnmarshalJSON: the second a date and a time of day stand for
ParseTime(stamp) == TimeParse(stamp[1]).t + stamp[2]

\* json.Unmarshal of an array, of null, of an object into a Comment and
\* into an Item: every field found by its name
DecodeArray(value) == IF value[1] = "null" THEN <<>> ELSE Tail(value)

FieldOf(object, name) ==
    LET k == CHOOSE i \in 2..Len(object) : object[i][1] = name
    IN  object[k][2]

DecodeComment(object) ==
    [Author |-> FieldOf(object, "Author"),
     Body |-> DecodeString(FieldOf(object, "Body")),
     CreatedAt |-> ParseTime(FieldOf(object, "CreatedAt")),
     UpdatedAt |-> ParseTime(FieldOf(object, "UpdatedAt"))]

DecodeItem(object) ==
    LET comments == DecodeArray(FieldOf(object, "Comments"))
    IN  [Type |-> FieldOf(object, "Type"),
         Number |-> FromDigits(FieldOf(object, "Number")),
         Title |-> FieldOf(object, "Title"),
         URL |-> FieldOf(object, "URL"),
         State |-> FieldOf(object, "State"),
         CreatedAt |-> ParseTime(FieldOf(object, "CreatedAt")),
         UpdatedAt |-> ParseTime(FieldOf(object, "UpdatedAt")),
         Author |-> FieldOf(object, "Author"),
         Assignees |-> DecodeArray(FieldOf(object, "Assignees")),
         Labels |-> DecodeArray(FieldOf(object, "Labels")),
         Repository |-> DecodeString(FieldOf(object, "Repository")),
         Involvement |-> FieldOf(object, "Involvement"),
         Body |-> DecodeString(FieldOf(object, "Body")),
         Comments |-> [i \in 1..Len(comments) |-> DecodeComment(comments[i])]]

DecodeItems(data) ==
    IF data[1][1] = "null" THEN <<>> ELSE [i \in 1..Len(data) |-> DecodeItem(data[i])]

HandedToPass ==
    LET OfPass(key) == key[1] = pass
    IN  SelectSeq(fetched, OfPass)

\* C23: while a list fetch runs and when it has returned, its items are the
\* records of its pages that were created from the first second of the
\* start day to the last second of the end day, both included, each once
\* and in the order received, a record outside the range between two of
\* them left out.
C23_PassKeepsInRangeRecords ==
    pc \in {"fetch", "details"} =>
        /\ PassKeys = HandedToPass
        /\ \A j \in 1..Len(items) :
             /\ items[j].CreatedAt >= TimeParse(input.from).t
             /\ items[j].CreatedAt <= TimeParse(input.to).t + 86399

\* a list fetch is about to return the record created in the last second
\* of the range and the one created in its first second, which came on one
\* page with a record outside the range between them
C23_Witness ==
    /\ pc = "fetch"
    /\ ~hasMore
    /\ served = 2
    /\ skipped
    /\ Len(items) = 2
    /\ items[1].CreatedAt = dateRange.EndDate
    /\ items[2].CreatedAt = dateRange.StartDate

\* C24: the loop of a list fetch ends in three ways only.  After an empty
\* page it is over without an error and the fetch still holds what it had
\* gathered; after a non-empty page it is over exactly when that page was
\* the tenth, so a non-empty page that gave no item, all its records being
\* outside the range, is followed by the request of the next page; and the
\* error of a list fetch comes from three failed attempts of one page
\* request.
C24_ThreeWaysToStop ==
    /\ pc = "fetch" /\ ~hasMore =>
         \/ lastResp = "empty"
         \/ lastResp = "items" /\ served = 10
    /\ pc = "fetch" /\ lastResp = "empty" =>
         ~hasMore /\ net.fails = 0 /\ PassKeys = HandedToPass
    /\ pc = "fetch" /\ lastResp = "items" =>
         (hasMore <=> served < 10)
    /\ pc = "fetch" /\ lastResp = "items" /\ items = <<>> /\ served < 10 =>
         hasMore /\ page = served + 1
    /\ pc = "fetch" /\ lastResp = "none" => hasMore /\ served = 0
    /\ (pc = "exit1" /\ err[1] \in {"Failed to retrieve Issues", "Failed to retrieve PRs"}) =>
         net.call[1] = "list" /\ net.fails = 3

\* a list fetch is over after an empty third page; of its two pages of one
\* record each, one gave an item and the other, its record being outside the
\* range, gave none
C24_Witness ==
    /\ pc = "fetch"
    /\ ~hasMore
    /\ lastResp = "empty"
    /\ served = 3
    /\ skipped
    /\ Len(items) = 1
    /\ net.fails = 0

\* a step in which a page request is answered with a non-empty page that
\* has no record inside the range
AllOutsidePage ==
    /\ pc = "fetch"
    /\ net'.call[1] = "list"
    /\ net'.fails = 0
    /\ page' = page + 1
    /\ items' = items

\* C25 as stated: after a non-empty page without a record inside the range
\* the list fetch asks for no further page, although the page ceiling has
\* not been reached.
C25_StopsWhenRangeExhausted ==
    [][AllOutsidePage /\ page' <= 10 => ~hasMore']_vars

\* C25, amended: a non-empty page without a record inside the range ends
\* nothing: the list fetch stays in its loop with the items it had and the
\* same query, and it asks for the next page unless the page was the tenth.
C25_GoesOnWhenRangeExhausted ==
    [][AllOutsidePage =>
          /\ pc' = "fetch"
          /\ query' = query
          /\ hasMore' = (page' <= 10)
          /\ net'.sleep = 1]_vars

\* a list fetch has seen two pages without a record inside the range and
\* is about to ask for the third page
C25_Witness ==
    /\ pc = "fetch"
    /\ hasMore
    /\ page = 3
    /\ served = 2
    /\ lastResp = "items"
    /\ skipped
    /\ items = <<>>

\* the comment lists an item can have when its enrichment is over and no
\* filter has touched it
Unfiltered == {g \o r : g \in GeneralLists, r \in ReviewLists}

\* the authors of the comments a report shows, whatever its format
ReportAuthors ==
    IF input.format = "md"
    THEN {file.data[k][2] : k \in {j \in 1..Len(file.data) : file.data[j][1] = "    - "}}
    ELSE LET shown == DecodeItems(file.data)
         IN  UNION {{shown[i].Comments[j].Author : j \in 1..Len(shown[i].Comments)} :
                       i \in 1..Len(shown)}

Enriched == items[1]

\* the detail fetch of that item is over
EnrichmentOver == pc = "details" /\ idx = 2 /\ stage = "tag"

\* C27: the detail fetch of an item asks for the body, then for the general
\* comments, then, for a pull request only, for the review comments, each
\* call made only when the one before it was answered.  While the body call
\* runs the item has no body and no comment; while the general-comments
\* call runs it has its body and no comment; while the review-comments call
\* runs it is a pull request with its body and its general comments.  When
\* a call has failed, it is the last call made for the item, and the item
\* keeps what the calls before it attached.
C27_BodyThenCommentsThenReview ==
    /\ (pc = "details" /\ idx = 1 /\ stage = "body") =>
         /\ Enriched.Body = <<>> /\ Enriched.Comments = <<>>
         /\ net.call[1] \in {"none", "body"}
    /\ (pc = "details" /\ idx = 1 /\ stage = "comments") =>
         /\ Enriched.Body = <<"b">> /\ Enriched.Comments = <<>>
         /\ net.call[1] \in {"body", "comments"}
         /\ net.call[1] = "body" => net.fails = 0
    /\ (pc = "details" /\ idx = 1 /\ stage = "review") =>
         /\ Enriched.Type = "PR"
         /\ Enriched.Body = <<"b">> /\ Enriched.Comments \in GeneralLists
         /\ net.call[1] \in {"comments", "review"}
         /\ net.call[1] = "comments" => net.fails = 0
    /\ (EnrichmentOver /\ err # Nil /\ err[1] \in {"Failed to retrieve Issue details",
                                                    "Failed to retrieve PR details"}) =>
         /\ net.call = <<"body", pass, 1>> /\ net.fails = 3
         /\ Enriched.Body = <<>> /\ Enriched.Comments = <<>>
    /\ (EnrichmentOver /\ err # Nil /\ err[1] = "Failed to retrieve comments") =>
         /\ net.call = <<"comments", pass, 1>> /\ net.fails = 3
         /\ Enriched.Body = <<"b">> /\ Enriched.Comments = <<>>
    /\ (EnrichmentOver /\ err # Nil /\ err[1] = "Failed to retrieve review comments") =>
         /\ net.call = <<"review", pass, 1>> /\ net.fails = 3
         /\ Enriched.Type = "PR"
         /\ Enriched.Body = <<"b">> /\ Enriched.Comments \in GeneralLists
    /\ (EnrichmentOver /\ err = Nil) =>
         /\ net.call[1] = (IF Enriched.Type = "PR" THEN "review" ELSE "comments")
         /\ net.fails = 0
         /\ Enriched.Body = <<"b">>
    /\ net.call[1] = "review" => Enriched.Type = "PR"

\* the detail fetch of a pull request is over with the error of the
\* review-comments call; the item has its body and its two general comments
C27_Witness ==
    /\ EnrichmentOver
    /\ err # Nil
    /\ err[1] = "Failed to retrieve review comments"
    /\ Enriched.Type = "PR"
    /\ Enriched.Body = <<"b">>
    /\ Len(Enriched.Comments) = 2

\* the stored repository strings that give no path
Pathless == {<<>>, <<"h", "t", "t", "p", ":", "/">>}

\* C28: for an item whose stored repository string gives no path, the
\* empty string or "http:/", no request is ever made: the detail fetch is
\* over at once with the error that names the string, and the item has no
\* body and no comment, as before.  For any other string the detail fetch
\* makes its body call.
C28_NoPathNoRequest ==
    /\ Enriched.Repository \in Pathless =>
         /\ net = NoCall
         /\ Enriched.Body = <<>> /\ Enriched.Comments = <<>>
         /\ stage = "tag"
         /\ idx = 2 => err = <<"Failed to extract repository path", Enriched.Repository>>
    /\ Enriched.Repository \notin Pathless =>
         /\ idx = 2 => net.call[1] \in {"body", "comments", "review"}
         /\ err # Nil => err[1] # "Failed to extract repository path"

\* the detail fetch of the item with the repository string "http:/" is over
C28_Witness ==
    /\ EnrichmentOver
    /\ Enriched.Repository = <<"h", "t", "t", "p", ":", "/">>
    /\ err # Nil
    /\ err[1] = "Failed to extract repository path"
    /\ net = NoCall

\* the calls made inside a retry loop
RetriedKinds == {"list", "body", "comments", "review"}

\* C29 as stated: a back-off wait is made only between two attempts of one
\* call.  After a first or second failed attempt the program waits 2 s and
\* tries again; after the attempt that ends the call, be it an answered one
\* or the third failed one, it makes no back-off wait.
C29_BackoffOnlyBetweenAttempts ==
    net.call[1] \in RetriedKinds =>
        /\ net.fails \in {1, 2} => net.sleep = 2
        /\ net.fails = 0 => net.sleep # 2
        /\ net.fails = 3 => net.sleep = 0

\* C30: the answer to a page request is followed by one rate-limit wait of
\* 1 s when the page has records, before the list fetch does anything else,
\* and by no wait when the page is empty; no other answered request is
\* followed by a wait, and the wait after a failed attempt is not a
\* rate-limit wait.
C30_OneRateWaitPerPage ==
    /\ (pc = "fetch" /\ net.call[1] = "list" /\ net.call[2] = pass /\ net.fails = 0) =>
         /\ lastResp = "items" => net.sleep = 1
         /\ lastResp = "empty" => net.sleep = 0
         /\ lastResp \in {"items", "empty"}
    /\ (net.call[1] \in {"user", "body", "comments", "review"} /\ net.fails = 0) =>
         net.sleep = 0
    /\ net.fails > 0 => net.sleep # 1
    /\ net.sleep \in {0, 1, 2}

\* the first page of a list fetch gave an item; the rate-limit wait has been
\* made and the second page is about to be requested
C30_Witness ==
    /\ pc = "fetch"
    /\ hasMore
    /\ page = 2
    /\ lastResp = "items"
    /\ ~skipped
    /\ Len(items) = 1
    /\ net.call[1] = "list"
    /\ net.sleep = 1

\* the calendar days of the modelled year, as the days' numbers from 0
CalendarDay(str) ==
    IF str[1] = 1 /\ str[2] \in 1..31 THEN str[2] - 1
    ELSE IF str[1] = 2 /\ str[2] \in 1..28 THEN 31 + str[2] - 1
    ELSE IF str[1] = 3 /\ str[2] \in 1..31 THEN 59 + str[2] - 1
    ELSE IF str[1] = 6 /\ str[2] \in 1..30 THEN 151 + str[2] - 1
    ELSE IF str[1] = 12 /\ str[2] \in 1..31 THEN 334 + str[2] - 1
    ELSE -1

\* C31: parseDateRange returns a range exactly when both strings are calendar
\* dates and the end day is not before the start day (the same day is
\* accepted); the range starts at the start day's midnight and ends at the
\* end day's midnight + 24 h - 1 s, so its end is not before its start;
\* in every other case it returns an error and the zero range.
C31_RangeIffOrderedDates ==
    pc = "parsed" =>
        LET from == CalendarDay(input.from)
            to == CalendarDay(input.to)
        IN  IF from >= 0 /\ to >= 0 /\ to >= from
            THEN /\ err = <<>>
                 /\ dateRange.StartDate = from * 86400
                 /\ dateRange.EndDate = to * 86400 + 86399
                 /\ dateRange.EndDate >= dateRange.StartDate
            ELSE /\ err # <<>>
                 /\ dateRange = [StartDate |-> 0, EndDate |-> 0]

\* the same day given twice: a range of one day less one second
C31_Witness ==
    /\ pc = "parsed"
    /\ input.from = <<3, 1>>
    /\ input.to = <<3, 1>>
    /\ err = <<>>
    /\ dateRange.EndDate - dateRange.StartDate = 86399

\* the page number at the end of an endpoint of a list request
PageOf(endpoint) == endpoint[Len(endpoint)]

\* C32: within a pass the pages are requested in the order 1, 2, 3, ...:
\* the page the list loop is at is one more than the number of pages
\* answered with records, so page N+1 follows an answered non-empty page N
\* and no answered page is asked for again; a retry asks for the page of the
\* failed attempt; after an empty page no page is requested.
C32_PagesInOrder ==
    pc = "fetch" =>
        /\ page >= 1
        /\ lastResp = "none" => (page = 1 /\ served = 0)
        /\ lastResp = "items" => page = served + 1
        /\ lastResp = "empty" => (page = served /\ ~hasMore)
        /\ page > 1 => lastResp \in {"items", "empty"}
        /\ (net.call[1] = "list" /\ net.call[2] = pass /\ net.fails > 0) =>
             /\ net.call[3] = page
             /\ Len(net.endpoint) > 2
             /\ net.endpoint[Len(net.endpoint) - 1] = "&page="
             /\ PageOf(net.endpoint) = page
             /\ hasMore

\* two pages have been answered with records and the first request for
\* page 3 has failed
C32_Witness ==
    /\ pc = "fetch"
    /\ page = 3
    /\ served = 2
    /\ lastResp = "items"
    /\ net.call = <<"list", pass, 3>>
    /\ net.fails = 1
    /\ PageOf(net.endpoint) = 3

\* the run is over: the report is written, or main has left with an error
RunOver == pc \in {"done", "exit1"}

\* the bounds on the requests of a run, as far as the run has come: at most
\* 10 pages answered to a list fetch and none asked for after the tenth, at
\* most 3 attempts in a row of any one call, at most the two calls of an
\* Issue's enrichment and the three of a pull request's, and six passes
RequestsBounded ==
    /\ served <= 10
    /\ (pc = "fetch" /\ served = 10) => ~hasMore
    /\ retryCount <= 2
    /\ net.fails <= 3
    /\ (net.fails = 3 /\ net.call[1] = "list") => pc = "exit1"
    /\ (net.fails > 0 /\ net.call[1] = "user") => (pc = "exit1" /\ net.fails = 1)
    /\ pass <= 6
    /\ Len(passLog) <= 6
    /\ pc = "details" =>
         /\ stage \in {"tag", "body", "comments", "review"}
         /\ idx \in 1..(Len(items) + 1)
         /\ (stage = "review" /\ idx <= Len(items)) => items[idx].Type = "PR"

\* what is left of the run, as four numbers: the phases of main still to
\* come; the pages of the list fetch, or the items of the detail loop, still
\* to come; the loop's own next move; the attempts left of the call
Measure ==
    CASE pc = "main" -> <<16, 0, 0, 0>>
      [] pc = "user" -> <<15, 0, 0, 0>>
      [] pc = "fetch" ->
           <<16 - 2 * pass, 11 - page, IF hasMore THEN 1 ELSE 0, 2 - retryCount>>
      [] pc = "details" ->
           <<15 - 2 * pass, Len(items) + 1 - idx,
             CASE stage = "tag" -> 3 [] stage = "body" -> 2
               [] stage = "comments" -> 1 [] OTHER -> 0,
             2 - retryCount>>
      [] pc = "filter" -> <<2, 0, 0, 0>>
      [] pc = "write" -> <<1, 0, 0, 0>>
      [] OTHER -> <<0, 0, 0, 0>>

\* the order of the dictionary on such measures
Below(a, b) ==
    \E k \in 1..4 : a[k] < b[k] /\ \A j \in 1..(k - 1) : a[j] = b[j]

\* C33: every run comes to an end, whatever the API answers and however its
\* requests fail: a list fetch gets at most 10 pages with at most 3 attempts
\* each, the enrichment of an Issue makes at most 2 calls and that of a pull
\* request at most 3, with at most 3 attempts each; every step of the run
\* lowers a measure that cannot go below zero, and the run can go on until
\* it has written the report or has left with an error.
C33_RunTerminates ==
    /\ [](RequestsBounded /\ \A k \in 1..4 : Measure[k] >= 0)
    /\ [](~RunOver => ENABLED Next)
    /\ [][Below(Measure', Measure)]_vars

\* a run that has had a detail call fail three times in its last pass and
\* has written its report
C33_Witness ==
    /\ pc = "done"
    /\ file.exists
    /\ Len(passLog) = 6
    /\ net.fails = 3
    /\ net.call[1] \in {"body", "comments", "review"}

SameButComments(a, b) ==
    /\ Len(a) = Len(b)
    /\ \A i \in 1..Len(b) :
         /\ a[i].Type = b[i].Type
         /\ a[i].Number = b[i].Number
         /\ a[i].Title = b[i].Title
         /\ a[i].URL = b[i].URL
         /\ a[i].State = b[i].State
         /\ a[i].CreatedAt = b[i].CreatedAt
         /\ a[i].UpdatedAt = b[i].UpdatedAt
         /\ a[i].Author = b[i].Author
         /\ a[i].Assignees = b[i].Assignees
         /\ a[i].Labels = b[i].Labels
         /\ a[i].Repository = b[i].Repository
         /\ a[i].Involvement = b[i].Involvement
         /\ a[i].Body = b[i].Body

\* C35: a call of filterIgnoredUserComments, with any ignore list, leaves
\* the collection as long as it was and in its order, and leaves every field
\* of every item but Comments as it was: kind, number, title, url, state,
\* the two timestamps, author, assignees, labels, repository, involvement
\* and body.
C35_FilterTouchesCommentsOnly ==
    [][(pc = "filter" \/ pc = "filtered") => SameButComments(allItems', allItems)]_vars

\* the filter has run on an Issue and a pull request that differ in every
\* field that can differ, and has taken a comment out of the pull request
C35_Witness ==
    /\ pc = "filtered"
    /\ input.ignore = <<"Bob", "alice">>
    /\ Len(allItems) = 2
    /\ allItems[1].Type = "Issue" /\ allItems[2].Type = "PR"
    /\ allItems[1].Number # allItems[2].Number
    /\ allItems[1].Body # allItems[2].Body
    /\ allItems[1].Repository # allItems[2].Repository
    /\ allItems[1].Comments = <<>>
    /\ HasGap(allItems[2].Comments)

\* the detail fetch of items[idx] is between its first request and its return
Enriching == pc = "details" /\ (stage = "body" \/ stage = "comments" \/ stage = "review")

\* the loop body is at its head: the caller's tag, then the repository path
\* that fetchIssueDetails / fetchPRDetails compute before any request
AtLoopHead == pc = "details" /\ stage = "tag" /\ idx <= Len(items)

\* item a is item b in every field but Body and Comments
SameButBodyAndComments(a, b) ==
    /\ a.Type = b.Type
    /\ a.Number = b.Number
    /\ a.Title = b.Title
    /\ a.URL = b.URL
    /\ a.State = b.State
    /\ a.CreatedAt = b.CreatedAt
    /\ a.UpdatedAt = b.UpdatedAt
    /\ a.Author = b.Author
    /\ a.Assignees = b.Assignees
    /\ a.Labels = b.Labels
    /\ a.Repository = b.Repository
    /\ a.Involvement = b.Involvement

\* sequence s is the beginning of sequence t
StartsWith(t, s) == Len(s) <= Len(t) /\ SubSeq(t, 1, Len(s)) = s

\* every item of the pass but items[idx] is as it was, and so is the
\* aggregate
OthersUntouched ==
    /\ allItems' = allItems
    /\ Len(items') = Len(items)
    /\ \A i \in 1..Len(items) : i # idx => items'[i] = items[i]

\* C36: a step of the detail fetch of an item (a request answered, failed and
\* retried, or failed for good) leaves the kind, number, title, url, state,
\* timestamps, author, assignees, labels, repository and involvement of the
\* item as they were, keeps the comments it had at the front of its comment
\* list in their order, and leaves every other item of the pass and the
\* aggregate as they were; the step at the head of the loop body, where the
\* repository path is computed, changes nothing but the involvement the
\* caller assigns on the line before the call.
C36_EnrichingTouchesBodyAndComments ==
    [][/\ Enriching =>
            /\ OthersUntouched
            /\ SameButBodyAndComments(items'[idx], items[idx])
            /\ StartsWith(items'[idx].Comments, items[idx].Comments)
       /\ AtLoopHead =>
            /\ OthersUntouched
            /\ SameButBodyAndComments(items'[idx], [items[idx] EXCEPT !.Involvement = items'[idx].Involvement])
            /\ items'[idx].Body = items[idx].Body
            /\ items'[idx].Comments = items[idx].Comments]_vars

\* the second pull request of a pass has its body and two general comments and
\* waits for its review comments, after a first one of another repository
\* whose detail fetch failed
C36_Witness ==
    /\ pc = "details"
    /\ stage = "review"
    /\ Len(items) = 2
    /\ idx = 2
    /\ items[2].Body # <<>>
    /\ Len(items[2].Comments) = 2
    /\ items[1].Body = <<>>
    /\ items[1].Involvement = items[2].Involvement
    /\ items[1].Number # items[2].Number
    /\ items[1].Repository # items[2].Repository

\* the number a summary line of the narrative report shows
Shown(line) == file.data[line][2]

\* the involvement of the subsection line k of the report lies in: that of
\* the last title above it ("" when there is none)
SubsectionOf(k) ==
    LET above == {t \in 1..4 : \E j \in 1..(k - 1) : file.data[j] = <<SectionTitles[t][1]>>}
        Place(t) == CHOOSE j \in 1..(k - 1) : file.data[j] = <<SectionTitles[t][1]>>
        last == CHOOSE t \in above : \A u \in above : Place(u) <= Place(t)
    IN  IF above = {} THEN "" ELSE SectionTitles[last][2]

\* C37: in the narrative report of the aggregate fetchAllItems returned and
\* main filtered, the summary shows Number of PRs + Number of Issues = Total
\* items and Created + Assigned + Commented + Reviewed items = Total items,
\* the total being the length of the aggregate; and the items of the
\* aggregate correspond one to one to the item blocks of the detail list,
\* each block showing the kind and number of its item under the title of
\* the involvement of its item.
C37_SummaryAddsUp ==
    ReportWritten =>
        /\ file.data[5][1] = "- Total items: "
        /\ file.data[6][1] = "- Number of PRs: "
        /\ file.data[7][1] = "- Number of Issues: "
        /\ file.data[9][1] = "- Created items: "
        /\ file.data[12][1] = "- Reviewed items: "
        /\ Shown(5) = Len(allItems)
        /\ Shown(6) + Shown(7) = Shown(5)
        /\ Shown(9) + Shown(10) + Shown(11) + Shown(12) = Shown(5)
        /\ \E place \in [1..Len(allItems) -> ItemStarts] :
             /\ \A i, j \in 1..Len(allItems) : place[i] = place[j] => i = j
             /\ \A k \in ItemStarts : \E i \in 1..Len(allItems) : place[i] = k
             /\ \A i \in 1..Len(allItems) :
                  /\ file.data[place[i]][2] = allItems[i].Type
                  /\ file.data[place[i]][4] = allItems[i].Number
                  /\ SubsectionOf(place[i]) = allItems[i].Involvement

\* the report of a run that found an Issue the user commented on and a pull
\* request the user reviewed
C37_Witness ==
    /\ ReportWritten
    /\ Len(allItems) = 2
    /\ allItems[1].Type = "Issue" /\ allItems[1].Involvement = "commented"
    /\ allItems[2].Type = "PR" /\ allItems[2].Involvement = "reviewed"
    /\ Shown(5) = 2
    /\ Shown(6) = 1
    /\ Shown(11) = 1
    /\ Cardinality(ItemStarts) = 2

\* the kind of the items of pass p: the first three passes call fetchIssues,
\* the last three fetchPRs
KindOfPass(p) == IF p <= 3 THEN "Issue" ELSE "PR"

\* C38: every item the running pass holds, and every item of the aggregate,
\* has the kind of the pass that produced it: "Issue" for the passes 1 to 3,
\* "PR" for the passes 4 to 6; in the aggregate no pull request stands before
\* an Issue, no Issue has the involvement reviewed and no pull request the
\* involvement commented.
C38_KindFollowsPass ==
    /\ (pc = "fetch" \/ pc = "details") =>
         \A i \in 1..Len(items) : items[i].Type = KindOfPass(pass)
    /\ pc # "exit1" =>
         \A i \in 1..Len(allItems) : allItems[i].Type = KindOfPass(ProducerOf(i))
    /\ \A i, j \in 1..Len(allItems) :
         i < j => ~(allItems[i].Type = "PR" /\ allItems[j].Type = "Issue")
    /\ \A i \in 1..Len(allItems) :
         /\ allItems[i].Type = "Issue" \/ allItems[i].Type = "PR"
         /\ allItems[i].Type = "Issue" => allItems[i].Involvement # "reviewed"
         /\ allItems[i].Type = "PR" => allItems[i].Involvement # "commented"

\* the aggregate of the six passes holds an Issue of the commented pass and,
\* behind it, a pull request of the reviewed pass
C38_Witness ==
    /\ pc = "filter"
    /\ Len(passSizes) = 6
    /\ Len(allItems) = 2
    /\ ProducerOf(1) = 3 /\ allItems[1].Type = "Issue" /\ allItems[1].Involvement = "commented"
    /\ ProducerOf(2) = 6 /\ allItems[2].Type = "PR" /\ allItems[2].Involvement = "reviewed"

====
